---- MODULE Spec2Model ----
(***************************************************************************)
(* Message-exchange engine of meta_ai_api: request construction, response  *)
(* decoding, retry, conversation state, reference lookup, media extraction.*)
(*                                                                         *)
(* Python values are modelled as tagged JSON values.  A Python str is a    *)
(* tuple of chunks; the chunk "_" is the underscore character and every    *)
(* other chunk is a piece of text that contains no underscore.  None is    *)
(* JNull.  A call that may raise returns Ok(value) or Raise(exception).    *)
(***************************************************************************)
EXTENDS Integers, Sequences, FiniteSets, TLC

\* ---------------------------------------------------------------- bounds
MaxSends == 2
MaxLines == 2

\* ------------------------------------------------------ program constants
MAX_RETRIES == 3
RETRY_DELAY == 3

\* ------------------------------------------------------------ JSON values
JNull == [t |-> "null"]
JStr(s) == [t |-> "str", v |-> s]
JNum(n) == [t |-> "num", v |-> n]
JList(l) == [t |-> "list", v |-> l]
JObj(f) == [t |-> "obj", v |-> f]
EmptyObj == JObj([k \in {} |-> JNull])
EmptyList == JList(<<>>)
EmptyStr == JStr(<<>>)

Ok(v) == [ok |-> TRUE, val |-> v]
Raise(e) == [ok |-> FALSE, exc |-> e]

\* Python truth value of a decoded JSON value.
Truthy(j) ==
  CASE j.t = "null" -> FALSE
    [] j.t = "str" -> Len(j.v) > 0
    [] j.t = "num" -> j.v # 0
    [] j.t = "list" -> Len(j.v) > 0
    [] j.t = "obj" -> DOMAIN j.v # {}

\* x.get(k, d): only a dict has .get.
dict_get(j, k, d) ==
  IF j.t = "obj"
  THEN Ok(IF k \in DOMAIN j.v THEN j.v[k] ELSE d)
  ELSE Raise("AttributeError")

\* x[k] on a decoded value: KeyError on a dict without k, TypeError otherwise.
dict_item(j, k) ==
  IF j.t = "obj"
  THEN IF k \in DOMAIN j.v THEN Ok(j.v[k]) ELSE Raise("KeyError")
  ELSE Raise("TypeError")

\* "for x in j": the sequence of elements, or TypeError.  Iterating a dict
\* yields its keys; only their being strings matters to the callers.
py_iter(j) ==
  CASE j.t = "list" -> Ok(j.v)
    [] j.t = "str" -> Ok([i \in 1..Len(j.v) |-> JStr(<<j.v[i]>>)])
    [] j.t = "obj" -> Ok(IF DOMAIN j.v = {} THEN <<>> ELSE <<JStr(<<"key">>)>>)
    [] OTHER -> Raise("TypeError")

\* "_" in s, for a str s.
HasUnderscore(s) == \E i \in 1..Len(s) : s[i] = "_"

\* s.split("_"): the list of the pieces between underscores.
RECURSIVE str_split(_)
str_split(s) ==
  IF ~HasUnderscore(s) THEN <<s>>
  ELSE LET i == CHOOSE n \in 1..Len(s) : s[n] = "_" /\ \A m \in 1..(n-1) : s[m] # "_"
       IN <<SubSeq(s, 1, i-1)>> \o str_split(SubSeq(s, i+1, Len(s)))

\* -------------------------------------------------------- wire line shape
\* r.get(k, d) on the value of r, unless computing r raised.
then_get(r, k, d) == IF r.ok THEN dict_get(r.val, k, d) ELSE r
\* r[k] on the value of r, unless computing r raised.
then_item(r, k) == IF r.ok THEN dict_item(r.val, k) ELSE r

\* json_line.get("data", {}).get("node", {}).get("bot_response_message", {})
bot_response_message_of(json_line) ==
  then_get(then_get(dict_get(json_line, "data", EmptyObj), "node", EmptyObj),
           "bot_response_message", EmptyObj)

\* utils.format_response: the text of the event ("" when there is none).
text_or_empty(x) == IF ~x.ok THEN x ELSE IF x.val.t = "str" THEN x ELSE Ok(EmptyStr)
format_response(json_line) ==
  text_or_empty(then_get(bot_response_message_of(json_line), "text", EmptyStr))

\* ------------------------------------------------------- media extraction
\* media_info of one item of imagine_media.
media_info(media) ==
  [url |-> dict_get(media, "uri", JNull).val,
   type |-> dict_get(media, "media_type", JNull).val,
   prompt |-> dict_get(media, "prompt", JNull).val]
\* "Only add media with valid URL"
append_valid(medias, info) == IF Truthy(info.url) THEN Append(medias, info) ELSE medias

\* inner loop of extract_media: the items of one media set, from index i on;
\* medias is the list so far.
RECURSIVE media_of_items(_, _, _)
media_of_items(items, i, medias) ==
  IF i > Len(items) THEN Ok(medias)
  ELSE IF items[i].t # "obj" THEN Raise("AttributeError")
  ELSE media_of_items(items, i + 1, append_valid(medias, media_info(items[i])))

\* "for media in imagine_media" over the value of imagine_media.
media_of_set(imagine_media, medias) ==
  IF ~imagine_media.ok THEN imagine_media
  ELSE IF ~py_iter(imagine_media.val).ok THEN py_iter(imagine_media.val)
  ELSE media_of_items(py_iter(imagine_media.val).val, 1, medias)

\* outer loop of extract_media: the media sets from index i on; r is the list
\* so far, or the exception an earlier media set raised.
RECURSIVE media_of_sets(_, _, _)
media_of_sets(sets, i, r) ==
  IF ~r.ok \/ i > Len(sets) THEN r
  ELSE media_of_sets(sets, i + 1,
         media_of_set(dict_get(sets[i], "imagine_media", EmptyList), r.val))

\* extract_media from "media_sets = ..." on.
media_of_media_sets(media_sets) ==
  IF ~media_sets.ok THEN media_sets
  ELSE IF ~py_iter(media_sets.val).ok THEN py_iter(media_sets.val)
  ELSE media_of_sets(py_iter(media_sets.val).val, 1, Ok(<<>>))
\* extract_media from "if not session" on.
media_of_session(session) ==
  IF ~session.ok THEN session
  ELSE IF ~Truthy(session.val) THEN Ok(<<>>)
  ELSE media_of_media_sets(dict_get(session.val, "media_sets", EmptyList))
\* extract_media from "if not imagine_card" on.
media_of_card(imagine_card) ==
  IF ~imagine_card.ok THEN imagine_card
  ELSE IF ~Truthy(imagine_card.val) THEN Ok(<<>>)
  ELSE media_of_session(dict_get(imagine_card.val, "session", EmptyObj))

extract_media(bot) == media_of_card(dict_get(bot, "imagine_card", EmptyObj))

\* ------------------------------------------------------ reference lookup
\* "except excs: return []" around a computation r.
except_return_empty(r, excs) == IF ~r.ok /\ r.exc \in excs THEN Ok(<<>>) ELSE r

\* _extract_references from "return references if ..." on.
refs_of_references(references) ==
  IF ~references.ok THEN references
  ELSE IF references.val.t = "list" THEN Ok(references.val.v) ELSE Ok(<<>>)
\* _extract_references from "if not search_results" on.
refs_of_search_results(search_results) ==
  IF ~search_results.ok THEN search_results
  ELSE IF ~Truthy(search_results.val) THEN Ok(<<>>)
  ELSE refs_of_references(dict_get(search_results.val, "references", EmptyList))
\* _extract_references from "if not message" on.
refs_of_message(message) ==
  IF ~message.ok THEN message
  ELSE IF ~Truthy(message.val) THEN Ok(<<>>)
  ELSE refs_of_search_results(dict_get(message.val, "searchResults", JNull))

extract_references(response_json) ==
  except_return_empty(
    refs_of_message(then_get(dict_get(response_json, "data", EmptyObj), "message", EmptyObj)),
    {"KeyError", "TypeError"})

\* What the reference-fetch POST can produce: the transport (or
\* raise_for_status) raises, the body is not JSON, or a decoded JSON value.
TransportError == [kind |-> "transport_error"]
Undecodable == [kind |-> "undecodable"]
Decoded(j) == [kind |-> "json", j |-> j]

\* The try block of fetch_sources.
post_and_extract(resp) ==
  CASE resp.kind = "transport_error" -> Raise("RequestException")
    [] resp.kind = "undecodable" -> Raise("JSONDecodeError")
    [] resp.kind = "json" -> extract_references(resp.j)

\* fetch_sources posting the query without looking for a cached access token.
fetch_sources_without_token_check(fetch_id, token, resp) ==
  IF ~Truthy(fetch_id) THEN [res |-> Ok(<<>>), calls |-> 0]
  ELSE [res |-> except_return_empty(post_and_extract(resp),
                  {"RequestException", "JSONDecodeError", "KeyError"}),
        calls |-> 1]

\* fetch_sources: res is the value returned or the exception raised, calls
\* the number of reference-fetch POSTs issued.
fetch_sources(fetch_id, token, resp) ==
  IF ~Truthy(fetch_id) THEN [res |-> Ok(<<>>), calls |-> 0]
  ELSE IF ~Truthy(token) THEN [res |-> Ok(<<>>), calls |-> 0]
  ELSE [res |-> except_return_empty(post_and_extract(resp),
                  {"RequestException", "JSONDecodeError", "KeyError"}),
        calls |-> 1]

\* ------------------------------------------------------- response decoding
\* A line the decoders skip: blank, or text that json.loads rejects.
Skipped == [raw |-> "skipped"]
Json(j) == [raw |-> "json", j |-> j]

OVERALL_DONE == JStr(<<"OVERALL", "_", "DONE">>)
IN_PROGRESS == JStr(<<"IN", "_", "PROGRESS">>)

\* update_ids storing the identifiers of terminal events only is not what the
\* code does; this variant stores the two parts the other way round.
update_ids_swapped(chat_id, ext, thr) ==
  IF chat_id.t = "str" /\ HasUnderscore(chat_id.v)
  THEN Ok([ext |-> JStr(str_split(chat_id.v)[2]), thr |-> JStr(str_split(chat_id.v)[1])])
  ELSE Ok([ext |-> ext, thr |-> thr])

\* The "Update conversation IDs" block: the identifiers after one event.
update_ids(chat_id, ext, thr) ==
  IF ~Truthy(chat_id) THEN Ok([ext |-> ext, thr |-> thr])
  ELSE CASE chat_id.t = "str" ->
              IF HasUnderscore(chat_id.v)
              THEN LET parts == str_split(chat_id.v) IN
                   IF Len(parts) >= 2
                   THEN Ok([ext |-> JStr(parts[1]), thr |-> JStr(parts[2])])
                   ELSE Ok([ext |-> ext, thr |-> thr])
              ELSE Ok([ext |-> ext, thr |-> thr])
         [] chat_id.t = "num" -> Raise("TypeError")
         [] chat_id.t = "list" ->
              IF \E i \in 1..Len(chat_id.v) : chat_id.v[i] = JStr(<<"_">>)
              THEN Raise("AttributeError") ELSE Ok([ext |-> ext, thr |-> thr])
         [] chat_id.t = "obj" ->
              IF "_" \in DOMAIN chat_id.v
              THEN Raise("AttributeError") ELSE Ok([ext |-> ext, thr |-> thr])

\* The loop of _extract_last_response from line i on.  res is the last
\* terminal line (JNull when none) or the exception that ended the loop;
\* ext and thr are the identifiers the loop has stored by then.
RECURSIVE scan_lines(_, _, _, _, _)

\* scan_state keeping the first terminal line in place of the last.
scan_state_first_terminal(lines, i, ext, thr, last, bot, ids) ==
  IF ~ids.ok THEN [res |-> ids, ext |-> ext, thr |-> thr]
  ELSE scan_lines(lines, i + 1, ids.val.ext, ids.val.thr,
                  IF last = JNull /\ dict_get(bot, "streaming_state", JNull).val = OVERALL_DONE
                  THEN lines[i].j ELSE last)

\* The iteration for line i from "Check if this is the final response" on;
\* ids is the outcome of the "Update conversation IDs" block.
scan_state(lines, i, ext, thr, last, bot, ids) ==
  IF ~ids.ok THEN [res |-> ids, ext |-> ext, thr |-> thr]
  ELSE scan_lines(lines, i + 1, ids.val.ext, ids.val.thr,
                  IF dict_get(bot, "streaming_state", JNull).val = OVERALL_DONE
                  THEN lines[i].j ELSE last)

\* scan_bot running the "Update conversation IDs" block for terminal events
\* only.
scan_bot_ids_of_terminal_only(lines, i, ext, thr, last, bot) ==
  IF ~bot.ok THEN [res |-> bot, ext |-> ext, thr |-> thr]
  ELSE IF bot.val.t # "obj" THEN [res |-> Raise("AttributeError"), ext |-> ext, thr |-> thr]
  ELSE scan_state(lines, i, ext, thr, last, bot.val,
                  IF dict_get(bot.val, "streaming_state", JNull).val = OVERALL_DONE
                  THEN update_ids(dict_get(bot.val, "id", JNull).val, ext, thr)
                  ELSE Ok([ext |-> ext, thr |-> thr]))

\* The iteration for line i from "chat_id = ..." on; bot is the outcome of
\* the chain of .get calls.
scan_bot(lines, i, ext, thr, last, bot) ==
  IF ~bot.ok THEN [res |-> bot, ext |-> ext, thr |-> thr]
  ELSE IF bot.val.t # "obj" THEN [res |-> Raise("AttributeError"), ext |-> ext, thr |-> thr]
  ELSE scan_state(lines, i, ext, thr, last, bot.val,
                  update_ids(dict_get(bot.val, "id", JNull).val, ext, thr))

scan_lines(lines, i, ext, thr, last) ==
  IF i > Len(lines) THEN [res |-> Ok(last), ext |-> ext, thr |-> thr]
  ELSE IF lines[i].raw # "json" THEN scan_lines(lines, i + 1, ext, thr, last)
  ELSE scan_bot(lines, i, ext, thr, last, bot_response_message_of(lines[i].j))

extract_last_response(response, ext, thr) == scan_lines(response, 1, ext, thr, JNull)

\* data_of_media leaving the sources key out of the result when there are no
\* references.
data_of_media_without_empty_sources(message, sources, media) ==
  IF ~sources.res.ok THEN sources
  ELSE IF ~media.ok THEN [res |-> media, calls |-> sources.calls]
  ELSE IF sources.res.val = <<>>
  THEN [res |-> Ok([message |-> message, media |-> media.val]), calls |-> sources.calls]
  ELSE [res |-> Ok([message |-> message, sources |-> sources.res.val, media |-> media.val]),
        calls |-> sources.calls]

\* _extract_data from "media = ..." on; sources is the outcome of the
\* reference lookup.
data_of_media(message, sources, media) ==
  IF ~sources.res.ok THEN sources
  ELSE IF ~media.ok THEN [res |-> media, calls |-> sources.calls]
  ELSE [res |-> Ok([message |-> message, sources |-> sources.res.val, media |-> media.val]),
        calls |-> sources.calls]

\* "self.source_fetcher.fetch_sources(fetch_id) if fetch_id else []"
sources_of(fetch_id, token, resp) ==
  IF Truthy(fetch_id) THEN fetch_sources(fetch_id, token, resp)
  ELSE [res |-> Ok(<<>>), calls |-> 0]

\* _extract_data from "fetch_id = ..." on; message is the outcome of
\* format_response.
data_of_message(bot, token, resp, message) ==
  IF ~message.ok THEN [res |-> message, calls |-> 0]
  ELSE IF bot.t # "obj" THEN [res |-> Raise("AttributeError"), calls |-> 0]
  ELSE data_of_media(message.val,
                     sources_of(dict_get(bot, "fetch_id", JNull).val, token, resp),
                     extract_media(bot))

\* _extract_data from "message = ..." on; bot is the outcome of the chain of
\* .get calls.
data_of_bot(json_line, token, resp, bot) ==
  IF ~bot.ok THEN [res |-> bot, calls |-> 0]
  ELSE data_of_message(bot.val, token, resp, format_response(json_line))

\* _extract_data: res is the enriched result or the exception raised, calls
\* the number of reference-fetch POSTs issued.
\* extract_data whose reference lookup gets itself a token when none is
\* cached.
extract_data_acquiring_token(json_line, token, resp) ==
  data_of_bot(json_line, IF Truthy(token) THEN token ELSE JStr(<<"tok">>), resp,
              bot_response_message_of(json_line))

extract_data(json_line, token, resp) ==
  data_of_bot(json_line, token, resp, bot_response_message_of(json_line))

\* --------------------------------------------------------- authentication
\* get_access_token after its second try block; found is
\* the outcome of the chain of subscripts on the decoded response.
token_of(token, found) ==
  IF found.ok THEN [res |-> found, token |-> found.val, calls |-> 1]
  ELSE IF found.exc = "KeyError"
  THEN [res |-> Raise("FacebookRegionBlocked"), token |-> token, calls |-> 1]
  ELSE [res |-> found, token |-> token, calls |-> 1]

\* get_access_token without the "if self._access_token: return" shortcut.
get_access_token_uncached(token, resp) ==
  IF resp.kind = "undecodable"
  THEN [res |-> Raise("FacebookRegionBlocked"), token |-> token, calls |-> 1]
  ELSE token_of(token,
         then_item(then_item(then_item(dict_item(resp.j, "data"),
                                       "xab_abra_accept_terms_of_service"),
                             "new_temp_user_auth"),
                   "access_token"))

\* get_access_token: res is the token returned or the exception raised,
\* token the cached _access_token afterwards, calls the token POSTs issued.
get_access_token(token, resp) ==
  IF Truthy(token) THEN [res |-> Ok(token), token |-> token, calls |-> 0]
  ELSE IF resp.kind = "undecodable"
  THEN [res |-> Raise("FacebookRegionBlocked"), token |-> token, calls |-> 1]
  ELSE token_of(token,
         then_item(then_item(then_item(dict_item(resp.j, "data"),
                                       "xab_abra_accept_terms_of_service"),
                             "new_temp_user_auth"),
                   "access_token"))

\* get_cookies taking the anonymous branch whatever the flag.
get_cookies_without_session_cookie(is_auth, visit) ==
  [n \in {"_js_datr", "datr", "lsd", "fb_dtsg", "abra_csrf"} |-> JStr(<<n, visit>>)]

\* _get_cookies: the cookies extracted from the page fetched on the given
\* visit, with the session cookie for a client that logged in and the csrf
\* cookie for one that did not.  A value is named after its cookie and the
\* visit it comes from.
get_cookies(is_auth, visit) ==
  [n \in {"_js_datr", "datr", "lsd", "fb_dtsg"} \cup
          (IF is_auth THEN {"abra_sess"} ELSE {"abra_csrf"}) |-> JStr(<<n, visit>>)]

\* get_auth_payload for a client without cookies; t is the outcome of
\* the access_token property.
token_payload(t) ==
  [res |-> IF t.res.ok THEN Ok([access_token |-> t.res.val]) ELSE t.res,
   token |-> t.token, calls |-> t.calls]

get_auth_payload(is_auth, ck, token, resp) ==
  IF is_auth
  THEN [res |-> Ok([fb_dtsg |-> ck["fb_dtsg"]]), token |-> token, calls |-> 0]
  ELSE token_payload(get_access_token(token, resp))

\* ------------------------------------------------------- request building
META_AI_API_URL == "https://www.meta.ai/api/graphql/"
META_AI_GRAPH_URL == "https://graph.meta.ai/graphql?locale=user"

\* str(uuid.uuid4()) in the k-th send_message call of this client: a value
\* that no other call generates and the service never sends.
Uuid(k) == JStr(<<"uuid", ToString(k)>>)
\* utils.generate_offline_threading_id() in the k-th send_message call.
generate_offline_threading_id(k) == JStr(<<"nonce", ToString(k)>>)
\* CallNo that gives every attempt of a prompt the number of its first.
CallNo_of_first_attempt(c, att) == (c - 1) * (MAX_RETRIES + 1) + 1

\* The number of the send_message call that is attempt att of prompt c.
CallNo(c, att) == (c - 1) * (MAX_RETRIES + 1) + att + 1

\* build_message_payload sending the stored threading identifier, when there
\* is one, in place of the per-call nonce.
build_message_payload_stored_thread(auth_payload, ext, thr, nonce) ==
  [auth |-> auth_payload,
   fb_api_req_friendly_name |-> "useAbraSendMessageMutation",
   externalConversationId |-> ext,
   offlineThreadingId |-> IF thr # JNull THEN thr ELSE nonce]

build_message_payload(auth_payload, ext, thr, nonce) ==
  [auth |-> auth_payload,
   fb_api_req_friendly_name |-> "useAbraSendMessageMutation",
   externalConversationId |-> ext,
   offlineThreadingId |-> nonce]

build_message_headers(is_auth, ck) ==
  IF is_auth
  THEN [friendly |-> "useAbraSendMessageMutation", cookie |-> <<"abra_sess", ck["abra_sess"]>>]
  ELSE [friendly |-> "useAbraSendMessageMutation"]

\* len(x) for a decoded value.
py_len(j) ==
  CASE j.t = "list" -> Ok(Len(j.v))
    [] j.t = "str" -> Ok(Len(j.v))
    [] j.t = "obj" -> Ok(Cardinality(DOMAIN j.v))
    [] OTHER -> Raise("TypeError")

\* first_line_check that lets an error envelope through to the generator.
first_line_check_lenient(lines) ==
  IF Len(lines) = 0 THEN Ok("retry")
  ELSE IF lines[1].raw # "json" THEN Ok("retry")
  ELSE IF lines[1].j.t # "obj" THEN Raise("AttributeError")
  ELSE Ok("stream")

\* The try block of _handle_streaming_response: "retry" when the attempt goes
\* to _retry_message, "stream" when the rest of the lines is handed to
\* _stream_response, or the exception that escapes the try block.
first_line_check(lines) ==
  IF Len(lines) = 0 THEN Ok("retry")
  ELSE IF lines[1].raw # "json" THEN Ok("retry")
  ELSE LET errors == dict_get(lines[1].j, "errors", EmptyList)
           n == py_len(errors.val)
       IN IF ~errors.ok THEN errors
          ELSE IF ~n.ok THEN n
          ELSE IF n.val > 0 THEN Ok("retry") ELSE Ok("stream")

\* ------------------------------------------------- what the service sends
Str1(c) == JStr(<<c>>)
Event(fields) ==
  Json(JObj([data |-> JObj([node |-> JObj([bot_response_message |-> JObj(fields)])])]))

P1 == Event([id |-> JStr(<<"C2", "_", "T2", "_", "X2">>), streaming_state |-> IN_PROGRESS,
             text |-> Str1("par")])
D1 == Event([id |-> JStr(<<"C1", "_", "T1">>), streaming_state |-> OVERALL_DONE,
             fetch_id |-> Str1("F1"), text |-> Str1("full")])
D2 == Event([id |-> JStr(<<"_", "T3">>), streaming_state |-> OVERALL_DONE,
             text |-> Str1("alt")])
Picture == JObj([uri |-> Str1("U"), media_type |-> Str1("IMAGE"), prompt |-> Str1("p")])
D3 == Event([id |-> Str1("X"), streaming_state |-> OVERALL_DONE, text |-> Str1("solo"),
             imagine_card |-> JObj([session |-> JObj([media_sets |->
                JList(<<JObj([imagine_media |-> JList(<<Picture>>)])>>)])])])
ErrorEnvelope == Json(JObj([errors |-> JList(<<JObj([message |-> Str1("blocked")])>>)]))
NonObject == Json(JList(<<JNum(1)>>))

LineSet == {Skipped, ErrorEnvelope, NonObject, P1, D1, D2, D3}
Bodies == UNION {[1..n -> LineSet] : n \in 0..MaxLines}

Reference == JObj([title |-> Str1("t"), link |-> Str1("l")])
References(refs) ==
  Decoded(JObj([data |-> JObj([message |-> JObj([searchResults |-> JObj([references |-> refs])])])]))
RefResponses ==
  {TransportError, Undecodable,
   References(JList(<<Reference>>)),
   References(Str1("x")),
   Decoded(EmptyObj),
   Decoded(JObj([data |-> JNull])),
   Decoded(JObj([data |-> JObj([message |-> JObj([searchResults |-> Str1("x")])])])),
   Decoded(JList(<<JNum(1)>>))}

\* The responses to the reference lookups of a send: one that the lookup
\* swallows, one with references, one that makes it raise.
LookupResponses ==
  {TransportError, References(JList(<<Reference>>)), Decoded(JList(<<JNum(1)>>))}

FetchIds == {JNull, EmptyStr, Str1("F1")}

Token == Str1("tok")
TokenResponses ==
  {Undecodable,
   Decoded(EmptyObj),
   Decoded(JObj([data |-> JObj([xab_abra_accept_terms_of_service |->
              JObj([new_temp_user_auth |-> JObj([access_token |-> Token])])])]))}

\* ------------------------------------------------------------------ state
VARIABLES
  is_authenticated,          \* session_manager.is_authenticated
  cookies,                   \* session_manager.cookies
  auth_manager_cookies,      \* auth_manager.cookies
  source_fetcher_cookies,    \* source_fetcher.cookies
  access_token,              \* auth_manager._access_token
  external_conversation_id,  \* message_processor.external_conversation_id
  offline_threading_id,      \* message_processor.offline_threading_id
  pc,                        \* "idle"; "posted": inside session.post of a turn-send;
                             \* "retry": inside the sleep of _retry_message
  \* The send in progress, or the last send until the caller's next operation
  \* on the client (after which the caller holds none of it any more):
  stream,                    \* its stream argument
  new_conversation,          \* its new_conversation argument
  attempts,                  \* the attempts argument of its last send_message call
  gen,                       \* the generator of _stream_response it handed out
  yielded,                   \* the events that generator has yielded
  request,                   \* its last turn-send POST: url, headers, payload
  body,                      \* the response body of that POST (empty until it arrives)
  outcome,                   \* how it ended ("none" while in progress)
  result,                    \* the value it returned
  lookups,                   \* the responses to its reference-fetch POSTs
  posts,                     \* the number of its turn-send POSTs
  token_posts,               \* token POSTs of this client so far
  credential,                \* session_manager.session, which auth_manager and
                             \* source_fetcher share: its proxies and cookie jar
  session,                   \* message_processor.session: that session, or one of
                             \* the processor's own
  calls,                     \* prompts so far
  since_reset,               \* start_new_conversation ran and no prompt since
  reset_from,                \* external_conversation_id at that reset
  at_prompt,                 \* while the first POST of a send is in flight: what the
                             \* client held when the send was prompted
  warned,                    \* the call just made issued the deprecation warning
                             \* of the legacy interface
  slept,                     \* the sleeps of the send so far, each by its length
  nonces,                    \* for a client whose traffic is logged, the
                             \* offlineThreadingId of every turn-send POST so far
  fs,                        \* a direct call of fetch_sources: arguments and outcome
  em,                        \* a direct call of extract_media: argument and outcome
  held                       \* a generator of an earlier send the caller has kept

clientvars == <<is_authenticated, cookies, auth_manager_cookies, source_fetcher_cookies, access_token, external_conversation_id, offline_threading_id,
                pc, stream, new_conversation, attempts, gen, yielded, request, body,
                outcome, result, lookups, calls, posts, token_posts, credential, session,
                since_reset, reset_from, at_prompt, warned, slept, nonces>>
vars == <<clientvars, fs, em, held>>

NoResult == [message |-> JNull]
NoRequest == [url |-> "none"]
NoGen == [state |-> "none", rest |-> <<>>, src |-> 0]
NoSnapshot == [taken |-> FALSE]
NoFetch == [state |-> "none"]
NoExtract == [state |-> "none"]
NoHeld == [state |-> "none", rest |-> <<>>, call |-> 0, pulled |-> <<>>, after |-> "none"]
\* The log of a client whose traffic is not logged, and an empty log.
NoLog == [on |-> FALSE, sent |-> <<>>]
EmptyLog == [on |-> TRUE, sent |-> <<>>]
\* The log after a payload with the given offlineThreadingId has gone out.
logged(log, nonce) == IF log.on THEN [log EXCEPT !.sent = Append(@, nonce)] ELSE log

\* The proxy argument of the client: none, or a mapping.
NoProxies == EmptyObj
Proxies == JObj([https |-> Str1("proxy")])
\* message_processor.session as given to the constructor: the shared session.
Shared == [own |-> FALSE]
\* The cookie a response sets in the jar of the session that received it.
SetCookie == "set-cookie"
\* received that loses the proxies of the session.
received_losing_proxies(sess) ==
  [sess EXCEPT !.cookies = @ \cup {SetCookie}, !.proxies = NoProxies]

\* A session after it has received a response to a POST.
received(sess) == [sess EXCEPT !.cookies = @ \cup {SetCookie}]
\* The session a turn-send POST is issued on.
session_of(sess, cred) ==
  IF sess.own THEN sess ELSE [own |-> FALSE, proxies |-> cred.proxies, cookies |-> cred.cookies]

\* new_session that leaves the new session without the proxies.
new_session_without_proxies(k, cred) ==
  [own |-> TRUE, created_in |-> k, proxies |-> EmptyObj, cookies |-> {}]

\* "Create new session to avoid cookie leakage" in the k-th send_message call.
new_session(k, cred) ==
  [own |-> TRUE, created_in |-> k,
   proxies |-> IF Truthy(cred.proxies) THEN cred.proxies ELSE EmptyObj,
   cookies |-> {}]

\* The client after construction, but for the access token, the shared
\* session and fs.
InitClient ==
  /\ is_authenticated \in BOOLEAN
  /\ cookies = get_cookies(is_authenticated, "construction")
  /\ auth_manager_cookies = cookies
  /\ source_fetcher_cookies = cookies
  /\ external_conversation_id = JNull
  /\ offline_threading_id = JNull
  /\ pc = "idle"
  /\ stream = FALSE
  /\ new_conversation = FALSE
  /\ attempts = 0
  /\ gen = NoGen
  /\ yielded = <<>>
  /\ request = NoRequest
  /\ body = <<>>
  /\ outcome = "none"
  /\ result = NoResult
  /\ lookups = <<>>
  /\ calls = 0
  /\ posts = 0
  /\ token_posts = 0
  /\ session = Shared
  /\ since_reset = FALSE
  /\ reset_from = JNull
  /\ at_prompt = NoSnapshot
  /\ warned = FALSE
  /\ slept = <<>>

\* The client after construction, its traffic logged or not.
InitWithLog(log) ==
  /\ InitClient
  /\ access_token = JNull
  \* only the authenticated branch of send_message reads the proxies
  /\ credential \in {[proxies |-> p, cookies |-> {}] :
                        p \in IF is_authenticated THEN {NoProxies, Proxies} ELSE {NoProxies}}
  /\ fs = NoFetch
  /\ em = NoExtract
  /\ held = NoHeld
  /\ nonces = log

Init == InitWithLog(NoLog)

\* The responses that can make a difference to a call: one placeholder when
\* the call issues no request.
TokenChoices(token) ==
  IF get_auth_payload("abra_sess" \in DOMAIN auth_manager_cookies, auth_manager_cookies, token, Undecodable).calls = 0
  THEN {Undecodable} ELSE TokenResponses
RefChoices(json_line, token) ==
  IF extract_data(json_line, token, TransportError).calls = 0
  THEN {TransportError} ELSE LookupResponses

\* ---------------------------------------------------------------- actions
\* handle_conversation_id generating an identifier on every call.
handle_conversation_id_always_fresh(ext0, nc, k) == Uuid(k)

\* handle_conversation_id generating an identifier only when asked for a new
\* conversation.
handle_conversation_id_on_request(ext0, nc, k) == IF nc THEN Uuid(k) ELSE ext0

\* handle_conversation_id generating an identifier only when none is stored at
\* all: a stored empty string is kept.
handle_conversation_id_unless_stored(ext0, nc, k) ==
  IF ext0 = JNull \/ nc THEN Uuid(k) ELSE ext0

\* "Handle conversation ID" in the k-th send_message call: the identifier
\* stored when the payload is built.
handle_conversation_id(ext0, nc, k) ==
  IF ~Truthy(ext0) \/ nc THEN Uuid(k) ELSE ext0

Raised(exc) ==
  /\ outcome' = exc
  /\ result' = NoResult
  /\ pc' = "idle"

Returned(r) ==
  /\ outcome' = "returned"
  /\ result' = r
  /\ pc' = "idle"

\* send_message that handles the conversation identifier before it asks for
\* the auth payload.
send_message_id_before_token(st, nc, att, sent, k, ext0, thr0, token) ==
  /\ stream' = st
  /\ attempts' = att
  /\ \E tokresp \in TokenChoices(token) :
       LET \* the local is_authenticated of send_message
           authd == "abra_sess" \in DOMAIN auth_manager_cookies
           auth == get_auth_payload(authd, auth_manager_cookies, token, tokresp)
           ext == handle_conversation_id(ext0, nc, k)
       IN /\ access_token' = auth.token
          /\ token_posts' = token_posts + auth.calls
          /\ credential' = IF auth.calls > 0 THEN received(credential) ELSE credential
          /\ offline_threading_id' = thr0
          /\ IF ~auth.res.ok
             THEN /\ Raised(auth.res.exc)
                  /\ posts' = sent
                  /\ external_conversation_id' = ext
                  /\ UNCHANGED <<request, session, nonces>>
             ELSE /\ external_conversation_id' = ext
                  /\ posts' = sent + 1
                  /\ session' = IF authd THEN new_session(k, credential) ELSE session
                  /\ request' =
                       [url |-> IF authd THEN META_AI_API_URL ELSE META_AI_GRAPH_URL,
                        session |-> session_of(session', credential'),
                        headers |-> build_message_headers(authd, auth_manager_cookies),
                        payload |-> build_message_payload(auth.res.val, ext, thr0,
                                      generate_offline_threading_id(k))]
                  /\ nonces' = logged(nonces, request'.payload.offlineThreadingId)
                  /\ pc' = "posted"
                  /\ outcome' = "none"
                  /\ result' = NoResult

\* The k-th call of send_message, with stream = st, new_conversation = nc and
\* attempts = att, up to its session.post.  sent is the number of POSTs of
\* this send before the call; ext0 and thr0 are the stored identifiers and
\* token the cached access token at the time of the call.
send_message(st, nc, att, sent, k, ext0, thr0, token) ==
  /\ stream' = st
  /\ attempts' = att
  /\ \E tokresp \in TokenChoices(token) :
       LET \* the local is_authenticated of send_message
           authd == "abra_sess" \in DOMAIN auth_manager_cookies
           auth == get_auth_payload(authd, auth_manager_cookies, token, tokresp)
           ext == handle_conversation_id(ext0, nc, k)
       IN /\ access_token' = auth.token
          /\ token_posts' = token_posts + auth.calls
          /\ credential' = IF auth.calls > 0 THEN received(credential) ELSE credential
          /\ offline_threading_id' = thr0
          /\ IF ~auth.res.ok
             THEN /\ Raised(auth.res.exc)
                  /\ posts' = sent
                  /\ external_conversation_id' = ext0
                  /\ UNCHANGED <<request, session, nonces>>
             ELSE /\ external_conversation_id' = ext
                  /\ posts' = sent + 1
                  /\ session' = IF authd THEN new_session(k, credential) ELSE session
                  /\ request' =
                       [url |-> IF authd THEN META_AI_API_URL ELSE META_AI_GRAPH_URL,
                        session |-> session_of(session', credential'),
                        headers |-> build_message_headers(authd, auth_manager_cookies),
                        payload |-> build_message_payload(auth.res.val, ext, thr0,
                                      generate_offline_threading_id(k))]
                  /\ nonces' = logged(nonces, request'.payload.offlineThreadingId)
                  /\ pc' = "posted"
                  /\ outcome' = "none"
                  /\ result' = NoResult

\* retry_message with a delay that grows with the attempt number.
retry_message_backoff(att, ext0, thr0) ==
  /\ external_conversation_id' = ext0
  /\ offline_threading_id' = thr0
  /\ UNCHANGED <<access_token, stream, attempts, posts, request>>
  /\ IF att < MAX_RETRIES
     THEN /\ pc' = "retry"
          /\ outcome' = "none"
          /\ result' = NoResult
          /\ slept' = Append(slept, RETRY_DELAY * (att + 1))
     ELSE Raised("RetryExhausted") /\ UNCHANGED slept

\* retry_message with the bound off by one (attempts <= MAX_RETRIES).
retry_message_one_more(att, ext0, thr0) ==
  /\ external_conversation_id' = ext0
  /\ offline_threading_id' = thr0
  /\ UNCHANGED <<access_token, stream, attempts, posts, request>>
  /\ IF att <= MAX_RETRIES
     THEN /\ pc' = "retry"
          /\ outcome' = "none"
          /\ result' = NoResult
          /\ slept' = Append(slept, RETRY_DELAY)
     ELSE Raised("RetryExhausted") /\ UNCHANGED slept

\* _retry_message that drops the stored conversation identifier before it
\* sends again.
retry_message_forgetting_id(att, ext0, thr0) ==
  /\ external_conversation_id' = JNull
  /\ offline_threading_id' = thr0
  /\ UNCHANGED <<access_token, stream, attempts, posts, request>>
  /\ IF att < MAX_RETRIES
     THEN /\ pc' = "retry"
          /\ outcome' = "none"
          /\ result' = NoResult
          /\ slept' = Append(slept, RETRY_DELAY)
     ELSE Raised("RetryExhausted") /\ UNCHANGED slept

\* _retry_message called by attempt att, up to its sleep, or the terminal
\* error; ext0 and thr0 are the identifiers stored by then.
retry_message(att, ext0, thr0) ==
  /\ external_conversation_id' = ext0
  /\ offline_threading_id' = thr0
  /\ UNCHANGED <<access_token, stream, attempts, posts, request>>
  /\ IF att < MAX_RETRIES
     THEN /\ pc' = "retry"
          /\ outcome' = "none"
          /\ result' = NoResult
          /\ slept' = Append(slept, RETRY_DELAY)
     ELSE Raised("RetryExhausted") /\ UNCHANGED slept

\* _handle_regular_response that resolves references on every attempt, the
\* ones it goes on to retry included.
handle_regular_response_resolving_every_attempt(response) ==
  LET last == extract_last_response(response, external_conversation_id, offline_threading_id) IN
  /\ UNCHANGED <<gen, yielded>>
  /\ IF ~last.res.ok \/ Truthy(last.res.val)
     THEN /\ external_conversation_id' = last.ext
          /\ offline_threading_id' = last.thr
          /\ UNCHANGED <<access_token, stream, attempts, posts, request, slept>>
          /\ IF ~last.res.ok THEN Raised(last.res.exc) /\ UNCHANGED lookups
             ELSE \E resp \in RefChoices(last.res.val, access_token) :
                    LET data == extract_data(last.res.val, access_token, resp) IN
                    /\ lookups' = IF data.calls > 0 THEN Append(lookups, resp) ELSE lookups
                    /\ IF data.res.ok THEN Returned(data.res.val) ELSE Raised(data.res.exc)
     ELSE /\ retry_message(attempts, last.ext, last.thr)
          /\ lookups' = IF Truthy(access_token) THEN Append(lookups, TransportError) ELSE lookups

handle_regular_response(response) ==
  LET last == extract_last_response(response, external_conversation_id, offline_threading_id) IN
  /\ UNCHANGED <<gen, yielded>>
  /\ IF ~last.res.ok \/ Truthy(last.res.val)
     THEN /\ external_conversation_id' = last.ext
          /\ offline_threading_id' = last.thr
          /\ UNCHANGED <<access_token, stream, attempts, posts, request, slept>>
          /\ IF ~last.res.ok THEN Raised(last.res.exc) /\ UNCHANGED lookups
             ELSE \E resp \in RefChoices(last.res.val, access_token) :
                    LET data == extract_data(last.res.val, access_token, resp) IN
                    /\ lookups' = IF data.calls > 0 THEN Append(lookups, resp) ELSE lookups
                    /\ IF data.res.ok THEN Returned(data.res.val) ELSE Raised(data.res.exc)
     ELSE retry_message(attempts, last.ext, last.thr) /\ UNCHANGED lookups

\* handle_streaming_response that, once the attempts are spent, hands the
\* caller a generator that raises the terminal error on its first pull.
handle_streaming_response_lazy(response) ==
  LET first == first_line_check(response) IN
  IF first.ok /\ first.val = "retry"
  THEN /\ retry_message(attempts, external_conversation_id, offline_threading_id)
       /\ gen' = IF attempts < MAX_RETRIES THEN gen
                 ELSE [state |-> "failed", rest |-> <<>>, src |-> CallNo(calls, attempts)]
       /\ UNCHANGED <<yielded, lookups>>
  ELSE /\ UNCHANGED <<access_token, external_conversation_id, offline_threading_id,
                      stream, attempts, posts, request, lookups, slept>>
       /\ IF ~first.ok
          THEN Raised(first.exc) /\ UNCHANGED <<gen, yielded>>
          ELSE /\ outcome' = "generator"
               /\ result' = NoResult
               /\ pc' = "idle"
               /\ gen' = [state |-> "open", rest |-> Tail(response),
                          src |-> CallNo(calls, attempts)]
               /\ yielded' = <<>>

handle_streaming_response(response) ==
  LET first == first_line_check(response) IN
  IF first.ok /\ first.val = "retry"
  THEN /\ retry_message(attempts, external_conversation_id, offline_threading_id)
       /\ UNCHANGED <<gen, yielded, lookups>>
  ELSE /\ UNCHANGED <<access_token, external_conversation_id, offline_threading_id,
                      stream, attempts, posts, request, lookups, slept>>
       /\ IF ~first.ok
          THEN Raised(first.exc) /\ UNCHANGED <<gen, yielded>>
          ELSE /\ outcome' = "generator"
               /\ result' = NoResult
               /\ pc' = "idle"
               /\ gen' = [state |-> "open", rest |-> Tail(response),
                          src |-> CallNo(calls, attempts)]
               /\ yielded' = <<>>

\* A caller's call message_processor.send_message(message, stream = st,
\* new_conversation = nc, attempts = att): the first send_message call of a
\* send.
send(st, nc, att) ==
  /\ pc = "idle"
  /\ calls < MaxSends
  /\ new_conversation' = nc
  /\ send_message(st, nc, att, 0, CallNo(calls + 1, att), external_conversation_id,
                  offline_threading_id, access_token)
  /\ calls' = calls + 1
  /\ since_reset' = FALSE
  /\ reset_from' = JNull
  /\ at_prompt' = [taken |-> TRUE,
                   external_conversation_id |-> external_conversation_id,
                   offline_threading_id |-> offline_threading_id,
                   since_reset |-> since_reset,
                   reset_from |-> reset_from,
                   after_buffered_return |-> (outcome = "returned" /\ ~stream)]
  /\ body' = <<>>
  \* the caller lets go of the generator of its previous send
  /\ gen' = NoGen
  /\ yielded' = <<>>
  /\ lookups' = <<>>
  /\ slept' = <<>>
  /\ UNCHANGED <<is_authenticated, cookies, auth_manager_cookies, source_fetcher_cookies, fs, em, held>>

\* client.MetaAI.prompt(message, stream, new_conversation).
client_prompt(st, nc) ==
  /\ send(st, nc, 0)
  /\ warned' = FALSE

prompt == \E st \in BOOLEAN, nc \in BOOLEAN : client_prompt(st, nc)

\* retry handing the caller's new_conversation on to the recursive call.
retry_with_new_conversation ==
  /\ pc = "retry"
  /\ send_message(stream, new_conversation, attempts + 1, posts, CallNo(calls, attempts + 1),
                  external_conversation_id, offline_threading_id, access_token)
  /\ body' = <<>>
  /\ UNCHANGED <<is_authenticated, cookies, auth_manager_cookies, source_fetcher_cookies, new_conversation, calls, gen, yielded, lookups,
                 since_reset, reset_from, at_prompt, fs, em, held>>
  /\ warned' = FALSE
  /\ UNCHANGED slept

\* _retry_message after its sleep: the recursive send_message call.
retry ==
  /\ pc = "retry"
  /\ send_message(stream, FALSE, attempts + 1, posts, CallNo(calls, attempts + 1),
                  external_conversation_id, offline_threading_id, access_token)
  /\ body' = <<>>
  /\ UNCHANGED <<is_authenticated, cookies, auth_manager_cookies, source_fetcher_cookies, new_conversation, calls, gen, yielded, lookups,
                 since_reset, reset_from, at_prompt, fs, em, held>>
  /\ warned' = FALSE
  /\ UNCHANGED slept

\* session.post returns: the rest of send_message, which decodes the response
\* and returns, raises, or enters _retry_message.
handle_response ==
  /\ pc = "posted"
  /\ \E response \in Bodies :
       /\ body' = response
       /\ IF stream THEN handle_streaming_response(response)
          ELSE handle_regular_response(response)
  /\ IF session.own
     THEN session' = received(session) /\ UNCHANGED credential
     ELSE credential' = received(credential) /\ UNCHANGED session
  /\ at_prompt' = NoSnapshot
  /\ UNCHANGED <<is_authenticated, cookies, auth_manager_cookies, source_fetcher_cookies, new_conversation, calls, token_posts, since_reset,
                 reset_from, fs, em, held>>
  /\ warned' = FALSE
  /\ UNCHANGED nonces

\* stream_response that sends the turn again when the lines run out.
stream_response_retrying ==
  /\ pc = "idle"
  /\ gen.state = "open"
  /\ IF gen.rest = <<>>
     THEN /\ gen' = [gen EXCEPT !.state = "exhausted"]
          /\ pc' = IF attempts < MAX_RETRIES THEN "retry" ELSE pc
          /\ UNCHANGED <<yielded, outcome, lookups, credential>>
     ELSE /\ UNCHANGED pc
          /\ LET line == Head(gen.rest) IN
               IF line.raw # "json"
               THEN /\ gen' = [gen EXCEPT !.rest = Tail(@)]
                    /\ UNCHANGED <<yielded, outcome, lookups, credential>>
               ELSE \E resp \in RefChoices(line.j, access_token) :
                      LET data == extract_data(line.j, access_token, resp) IN
                      /\ lookups' = IF data.calls > 0 THEN Append(lookups, resp) ELSE lookups
                      /\ credential' = IF data.calls > 0 /\ resp # TransportError
                                       THEN received(credential) ELSE credential
                      /\ IF ~data.res.ok
                         THEN /\ gen' = [gen EXCEPT !.state = "failed"]
                              /\ outcome' = data.res.exc
                              /\ UNCHANGED yielded
                         ELSE /\ gen' = [gen EXCEPT !.rest = Tail(@)]
                              /\ yielded' = IF Truthy(data.res.val.message)
                                            THEN Append(yielded, data.res.val) ELSE yielded
                              /\ UNCHANGED outcome
  /\ UNCHANGED <<is_authenticated, cookies, auth_manager_cookies, source_fetcher_cookies, access_token, external_conversation_id, offline_threading_id,
                 stream, new_conversation, attempts, request, body, result, calls, posts,
                 token_posts, session, since_reset, reset_from, at_prompt, fs, em, held>>
  /\ warned' = FALSE
  /\ UNCHANGED <<slept, nonces>>

\* One iteration of the loop of _stream_response, driven by the caller's pull.
stream_response ==
  /\ pc = "idle"
  /\ gen.state = "open"
  /\ IF gen.rest = <<>>
     THEN /\ gen' = [gen EXCEPT !.state = "exhausted"]
          /\ UNCHANGED <<yielded, outcome, lookups, credential>>
     ELSE LET line == Head(gen.rest) IN
          IF line.raw # "json"
          THEN /\ gen' = [gen EXCEPT !.rest = Tail(@)]
               /\ UNCHANGED <<yielded, outcome, lookups, credential>>
          ELSE \E resp \in RefChoices(line.j, access_token) :
                 LET data == extract_data(line.j, access_token, resp) IN
                 /\ lookups' = IF data.calls > 0 THEN Append(lookups, resp) ELSE lookups
                 /\ credential' = IF data.calls > 0 /\ resp # TransportError
                                  THEN received(credential) ELSE credential
                 /\ IF ~data.res.ok
                    THEN /\ gen' = [gen EXCEPT !.state = "failed"]
                         /\ outcome' = data.res.exc
                         /\ UNCHANGED yielded
                    ELSE /\ gen' = [gen EXCEPT !.rest = Tail(@)]
                         /\ yielded' = IF Truthy(data.res.val.message)
                                       THEN Append(yielded, data.res.val) ELSE yielded
                         /\ UNCHANGED outcome
  /\ UNCHANGED <<is_authenticated, cookies, auth_manager_cookies, source_fetcher_cookies, access_token, external_conversation_id, offline_threading_id,
                 pc, stream, new_conversation, attempts, request, body, result, calls, posts,
                 token_posts, session, since_reset, reset_from, at_prompt, fs, em, held>>
  /\ warned' = FALSE
  /\ UNCHANGED <<slept, nonces>>

\* start_new_conversation that clears the conversation identifier only.
start_new_conversation_keeps_thread ==
  /\ pc = "idle"
  /\ calls < MaxSends
  /\ ~since_reset
  /\ external_conversation_id' = JNull
  /\ offline_threading_id' = offline_threading_id
  /\ since_reset' = TRUE
  /\ reset_from' = external_conversation_id
  /\ stream' = FALSE
  /\ new_conversation' = FALSE
  /\ attempts' = 0
  /\ gen' = NoGen
  /\ yielded' = <<>>
  /\ request' = NoRequest
  /\ body' = <<>>
  /\ outcome' = "none"
  /\ result' = NoResult
  /\ lookups' = <<>>
  /\ posts' = 0
  /\ warned' = FALSE
  /\ slept' = <<>>
  /\ UNCHANGED nonces
  /\ UNCHANGED <<is_authenticated, cookies, auth_manager_cookies, source_fetcher_cookies, access_token, pc, calls, token_posts, credential, session,
                 at_prompt, fs, em, held>>

start_new_conversation ==
  /\ pc = "idle"
  /\ calls < MaxSends
  /\ ~since_reset
  /\ external_conversation_id' = JNull
  /\ offline_threading_id' = JNull
  /\ since_reset' = TRUE
  /\ reset_from' = external_conversation_id
  \* the caller lets go of its previous send
  /\ stream' = FALSE
  /\ new_conversation' = FALSE
  /\ attempts' = 0
  /\ gen' = NoGen
  /\ yielded' = <<>>
  /\ request' = NoRequest
  /\ body' = <<>>
  /\ outcome' = "none"
  /\ result' = NoResult
  /\ lookups' = <<>>
  /\ posts' = 0
  /\ warned' = FALSE
  /\ slept' = <<>>
  /\ UNCHANGED nonces
  /\ UNCHANGED <<is_authenticated, cookies, auth_manager_cookies, source_fetcher_cookies, access_token, pc, calls, token_posts, credential, session,
                 at_prompt, fs, em, held>>

Next == prompt \/ handle_response \/ retry \/ stream_response \/ start_new_conversation

Spec == Init /\ [][Next]_vars

\* The same client with the offlineThreadingId of every payload logged.
InitLogged == InitWithLog(EmptyLog)
SpecLogged == InitLogged /\ [][Next]_vars

\* ------------------------------------------- the client with refresh_session
\* refresh_session that leaves the source fetcher with the cookies it was
\* constructed with.
refresh_session_without_source_fetcher ==
  /\ pc = "idle"
  /\ calls < MaxSends
  /\ cookies' = get_cookies(is_authenticated, "refresh")
  /\ auth_manager_cookies' = cookies'
  /\ UNCHANGED <<source_fetcher_cookies, is_authenticated, access_token, external_conversation_id,
                 offline_threading_id, pc, stream, new_conversation, attempts, gen, yielded,
                 request, body, outcome, result, lookups, calls, posts, token_posts,
                 credential, session, since_reset, reset_from, at_prompt, fs, em, held>>
  /\ warned' = FALSE
  /\ UNCHANGED <<slept, nonces>>

\* client.MetaAI.refresh_session: the cookies are extracted anew and handed to
\* auth_manager and source_fetcher.  The values of every later visit are
\* named alike: what matters is that they are not those of the construction.
refresh_session ==
  /\ pc = "idle"
  /\ calls < MaxSends
  /\ cookies' = get_cookies(is_authenticated, "refresh")
  /\ auth_manager_cookies' = cookies'
  /\ source_fetcher_cookies' = cookies'
  /\ UNCHANGED <<is_authenticated, access_token, external_conversation_id,
                 offline_threading_id, pc, stream, new_conversation, attempts, gen, yielded,
                 request, body, outcome, result, lookups, calls, posts, token_posts,
                 credential, session, since_reset, reset_from, at_prompt, fs, em, held>>
  /\ warned' = FALSE
  /\ UNCHANGED <<slept, nonces>>

NextRefresh == Next \/ refresh_session

SpecRefresh == Init /\ [][NextRefresh]_vars

\* ------------------------------- the client whose caller keeps a generator
\* The caller keeps the generator of the streaming send it has just made and
\* goes on to other operations of the client.
keep_generator ==
  /\ pc = "idle"
  /\ gen.state = "open"
  /\ held = NoHeld
  /\ held' = [state |-> "open", rest |-> gen.rest, call |-> calls, pulled |-> <<>>,
              after |-> "none"]
  /\ gen' = NoGen
  /\ yielded' = <<>>
  /\ warned' = FALSE
  /\ UNCHANGED <<is_authenticated, cookies, auth_manager_cookies, source_fetcher_cookies,
                 access_token, external_conversation_id, offline_threading_id, pc, stream,
                 new_conversation, attempts, request, body, outcome, result, lookups, calls,
                 posts, token_posts, credential, session, since_reset, reset_from, at_prompt,
                 slept, nonces, fs, em>>

\* What the client has done since the kept generator was made.
Since(h) ==
  IF since_reset THEN "reset" ELSE IF calls > h.call THEN "send" ELSE "same"

\* One iteration of _stream_response that also stores the pieces of a
\* composite id of the event it decodes.
pull_held_storing_ids ==
  /\ pc = "idle"
  /\ held.state = "open"
  /\ IF held.rest = <<>>
     THEN /\ held' = [held EXCEPT !.state = "exhausted", !.after = Since(held)]
          /\ UNCHANGED <<credential, external_conversation_id, offline_threading_id>>
     ELSE LET line == Head(held.rest) IN
          IF line.raw # "json"
          THEN /\ held' = [held EXCEPT !.rest = Tail(@), !.after = Since(held)]
               /\ UNCHANGED <<credential, external_conversation_id, offline_threading_id>>
          ELSE \E resp \in RefChoices(line.j, access_token) :
                 LET data == extract_data(line.j, access_token, resp)
                     last == extract_last_response(<<line>>, external_conversation_id,
                                                   offline_threading_id) IN
                 /\ credential' = IF data.calls > 0 /\ resp # TransportError
                                  THEN received(credential) ELSE credential
                 /\ external_conversation_id' = last.ext
                 /\ offline_threading_id' = last.thr
                 /\ IF ~data.res.ok
                    THEN held' = [held EXCEPT !.state = "failed", !.after = Since(held)]
                    ELSE held' = [held EXCEPT !.rest = Tail(@), !.after = Since(held),
                                    !.pulled = IF Truthy(data.res.val.message)
                                               THEN Append(@, line) ELSE @]
  /\ warned' = FALSE
  /\ UNCHANGED <<is_authenticated, cookies, auth_manager_cookies, source_fetcher_cookies,
                 access_token, pc, stream,
                 new_conversation, attempts, gen, yielded, request, body, outcome, result,
                 lookups, calls, posts, token_posts, session, since_reset, reset_from,
                 at_prompt, slept, nonces, fs, em>>

\* One iteration of the loop of _stream_response of the kept generator, driven
\* by the caller between two operations of the client: the generator reads
\* the token and the shared session as they are when it is pulled.
pull_held ==
  /\ pc = "idle"
  /\ held.state = "open"
  /\ IF held.rest = <<>>
     THEN /\ held' = [held EXCEPT !.state = "exhausted", !.after = Since(held)]
          /\ UNCHANGED credential
     ELSE LET line == Head(held.rest) IN
          IF line.raw # "json"
          THEN /\ held' = [held EXCEPT !.rest = Tail(@), !.after = Since(held)]
               /\ UNCHANGED credential
          ELSE \E resp \in RefChoices(line.j, access_token) :
                 LET data == extract_data(line.j, access_token, resp) IN
                 /\ credential' = IF data.calls > 0 /\ resp # TransportError
                                  THEN received(credential) ELSE credential
                 /\ IF ~data.res.ok
                    THEN held' = [held EXCEPT !.state = "failed", !.after = Since(held)]
                    ELSE held' = [held EXCEPT !.rest = Tail(@), !.after = Since(held),
                                    !.pulled = IF Truthy(data.res.val.message)
                                               THEN Append(@, line) ELSE @]
  /\ warned' = FALSE
  /\ UNCHANGED <<is_authenticated, cookies, auth_manager_cookies, source_fetcher_cookies,
                 access_token, external_conversation_id, offline_threading_id, pc, stream,
                 new_conversation, attempts, gen, yielded, request, body, outcome, result,
                 lookups, calls, posts, token_posts, session, since_reset, reset_from,
                 at_prompt, slept, nonces, fs, em>>

NextHeld == Next \/ keep_generator \/ pull_held

SpecHeld == Init /\ [][NextHeld]_vars

\* ------------------------------------------------------- the legacy facade
\* Values of the deprecated attempts argument.
LegacyAttempts == {0, 1, MAX_RETRIES + 1}

\* legacy_prompt_call handing the attempts argument on to send_message, as the
\* interface it keeps alive once did.
legacy_prompt_call_passing_attempts(st, a, nc) ==
  /\ warned' = (a > 0)
  /\ send(st, nc, IF a > 0 THEN a ELSE 0)

\* main.MetaAI.prompt(message, stream = st, attempts = a, new_conversation =
\* nc): the warning when attempts > 0, then super().prompt without attempts.
legacy_prompt_call(st, a, nc) ==
  /\ warned' = (a > 0)
  /\ send(st, nc, 0)

legacy_prompt ==
  \E st \in BOOLEAN, a \in LegacyAttempts, nc \in BOOLEAN : legacy_prompt_call(st, a, nc)

\* A client made through the legacy class, without credentials: its prompt
\* is the legacy one, its other operations are inherited.
InitLegacy == Init /\ ~is_authenticated

NextLegacy ==
  legacy_prompt \/ handle_response \/ retry \/ stream_response \/ start_new_conversation

SpecLegacy == InitLegacy /\ [][NextLegacy]_vars

\* ------------------------------------------- fetch_sources called directly
\* A client with or without a cached access token and one pending call of
\* source_fetcher.fetch_sources, with the response its POST would receive.
InitFetch ==
  /\ InitClient
  /\ nonces = NoLog
  /\ access_token \in {JNull, Token}
  \* a cached token has come with a response on the shared session
  /\ credential \in {[proxies |-> p,
                       cookies |-> IF access_token = JNull THEN {} ELSE {SetCookie}] :
                        p \in {NoProxies, Proxies}}
  /\ fs \in {[state |-> "pending", fetch_id |-> f, resp |-> r] :
               f \in FetchIds, r \in RefResponses}
  /\ em = NoExtract
  /\ held = NoHeld

call_fetch_sources ==
  /\ fs.state = "pending"
  /\ LET r == fetch_sources(fs.fetch_id, access_token, fs.resp) IN
     fs' = [state |-> "done", fetch_id |-> fs.fetch_id, resp |-> fs.resp,
            res |-> r.res, calls |-> r.calls]
  /\ credential' = IF fs.resp # TransportError /\
                      fetch_sources(fs.fetch_id, access_token, fs.resp).calls > 0
                   THEN received(credential) ELSE credential
  /\ UNCHANGED <<is_authenticated, cookies, auth_manager_cookies, source_fetcher_cookies, access_token, external_conversation_id,
                 offline_threading_id, pc, stream, new_conversation, attempts, gen, yielded,
                 request, body, outcome, result, lookups, calls, posts, token_posts, session,
                 since_reset, reset_from, at_prompt, em, held, warned, slept, nonces>>

NextFetch == call_fetch_sources

SpecFetch == InitFetch /\ [][NextFetch]_vars

\* ------------------------------------------------------------- has_media
\* any(media_set.get("imagine_media", []) for media_set in media_sets) from
\* index i on: true at the first set whose imagine_media is truthy.
RECURSIVE any_imagine_media(_, _)
any_imagine_media(sets, i) ==
  IF i > Len(sets) THEN Ok(FALSE)
  ELSE LET imagine_media == dict_get(sets[i], "imagine_media", EmptyList) IN
       IF ~imagine_media.ok THEN imagine_media
       ELSE IF Truthy(imagine_media.val) THEN Ok(TRUE)
       ELSE any_imagine_media(sets, i + 1)

\* has_media from "media_sets = ..." on: len(media_sets) > 0 and any(...).
has_media_of_media_sets(media_sets) ==
  IF ~media_sets.ok THEN media_sets
  ELSE IF ~py_len(media_sets.val).ok THEN py_len(media_sets.val)
  ELSE IF py_len(media_sets.val).val = 0 THEN Ok(FALSE)
  ELSE any_imagine_media(py_iter(media_sets.val).val, 1)
\* has_media from "if not session" on.
has_media_of_session(sess) ==
  IF ~sess.ok THEN sess
  ELSE IF ~Truthy(sess.val) THEN Ok(FALSE)
  ELSE has_media_of_media_sets(dict_get(sess.val, "media_sets", EmptyList))
\* has_media from "if not imagine_card" on.
has_media_of_card(imagine_card) ==
  IF ~imagine_card.ok THEN imagine_card
  ELSE IF ~Truthy(imagine_card.val) THEN Ok(FALSE)
  ELSE has_media_of_session(dict_get(imagine_card.val, "session", EmptyObj))

has_media(bot) == has_media_of_card(dict_get(bot, "imagine_card", EmptyObj))

\* ------------------------------------------- extract_media called directly
MaxSets == 2
MaxItems == 2

\* Items of imagine_media: with a url, without the uri key, with an empty url.
Picture2 == JObj([uri |-> Str1("V"), media_type |-> Str1("VIDEO"), prompt |-> Str1("q")])
NoUri == JObj([media_type |-> Str1("IMAGE")])
EmptyUri == JObj([uri |-> EmptyStr, media_type |-> Str1("IMAGE"), prompt |-> Str1("p")])
Items == {Picture, Picture2, NoUri, EmptyUri}

\* A container that is absent, null, or holds one of the given values.
Absent == [there |-> FALSE]
Present(v) == [there |-> TRUE, v |-> v]
Maybe(values) == {Absent, Present(JNull)} \cup {Present(v) : v \in values}
\* The object with key k when c is present, the object other without it.
With(other, k, c) ==
  IF c.there THEN JObj([n \in DOMAIN other \cup {k} |-> IF n = k THEN c.v ELSE other[n]])
  ELSE JObj(other)
Empty == [n \in {} |-> JNull]

ItemLists == {JList(l) : l \in UNION {[1..n -> Items] : n \in 0..MaxItems}}
MediaSets == {With(Empty, "imagine_media", c) : c \in Maybe(ItemLists)}
\* Lists of media sets: every list of at most MaxSets - 1 sets, and the lists
\* of MaxSets sets that begin with a set of two pictures.
SetLists ==
  {JList(l) : l \in UNION {[1..n -> MediaSets] : n \in 0..(MaxSets - 1)}} \cup
  {JList(<<JObj([imagine_media |-> JList(<<Picture, Picture2>>)])>> \o l) :
     l \in [1..(MaxSets - 1) -> MediaSets]}
\* A session always has an id here, so that it is truthy without media_sets.
Sessions == {With([id |-> Str1("s")], "media_sets", c) : c \in Maybe(SetLists)} \cup {EmptyObj}
Cards == {With([kind |-> Str1("c")], "session", c) : c \in Maybe(Sessions)} \cup {EmptyObj}
BotMessages == {With([text |-> Str1("t")], "imagine_card", c) : c \in Maybe(Cards)}

InitMedia ==
  /\ InitClient
  /\ nonces = NoLog
  /\ access_token = JNull
  /\ credential = [proxies |-> NoProxies, cookies |-> {}]
  /\ fs = NoFetch
  /\ em \in {[state |-> "pending", bot |-> b] : b \in BotMessages}
  /\ held = NoHeld

call_extract_media ==
  /\ em.state = "pending"
  /\ em' = [state |-> "done", bot |-> em.bot, res |-> extract_media(em.bot)]
  /\ UNCHANGED <<clientvars, fs, held>>

\* has_media called on the event extract_media was called on.
call_has_media ==
  /\ em.state = "done"
  /\ em' = [state |-> "compared", bot |-> em.bot, res |-> em.res, has |-> has_media(em.bot)]
  /\ UNCHANGED <<clientvars, fs, held>>

NextMedia == call_extract_media \/ call_has_media

SpecMedia == InitMedia /\ [][NextMedia]_vars

\* ------------------------------------------------ vocabulary of the claims
\* j[k] when j is an object that has k, None otherwise.
Field(j, k) == IF j.t = "obj" /\ k \in DOMAIN j.v THEN j.v[k] ELSE JNull
BotOf(line) == Field(Field(Field(line.j, "data"), "node"), "bot_response_message")
StateOf(line) == Field(BotOf(line), "streaming_state")
IdOf(line) == Field(BotOf(line), "id")

\* A line the decoder skips, or one that decodes to an object of the wire
\* shape {data: {node: {bot_response_message: {id, ...}}}}; any level may be
\* absent, none may be of another type.
Sub(j, k) == IF j.t = "obj" /\ k \in DOMAIN j.v THEN j.v[k] ELSE EmptyObj
WireShaped(line) ==
  line.raw = "json" =>
    /\ line.j.t = "obj"
    /\ Sub(line.j, "data").t = "obj"
    /\ Sub(Sub(line.j, "data"), "node").t = "obj"
    /\ Sub(Sub(Sub(line.j, "data"), "node"), "bot_response_message").t = "obj"
    /\ IdOf(line).t \in {"null", "str"}
AllWireShaped(b) == \A i \in 1..Len(b) : WireShaped(b[i])

IsTerminal(line) == line.raw = "json" /\ StateOf(line) = OVERALL_DONE
IsInProgress(line) == line.raw = "json" /\ StateOf(line) = IN_PROGRESS
NoTerminal(b) == \A i \in 1..Len(b) : ~IsTerminal(b[i])

\* A decoded line that is an object with a non-empty errors list.
IsErrorEnvelope(line) ==
  /\ line.raw = "json"
  /\ Field(line.j, "errors").t = "list"
  /\ Len(Field(line.j, "errors").v) > 0

\* The response of the last turn-send POST has arrived and been handled.
Handled == posts > 0 /\ pc # "posted"

TextOf(line) ==
  IF Field(BotOf(line), "text").t = "str" THEN Field(BotOf(line), "text") ELSE EmptyStr
RefsOf(resp) ==
  LET refs == Field(Field(Field(Field(resp.j, "data"), "message"), "searchResults"), "references")
  IN IF resp.kind = "json" /\ refs.t = "list" THEN refs.v ELSE <<>>
RECURSIVE Concat(_)
Concat(seqs) == IF seqs = <<>> THEN <<>> ELSE Head(seqs) \o Concat(Tail(seqs))
HasUrl(m) == Truthy(Field(m, "uri"))
MediaOf(line) ==
  LET sets == Field(Field(Field(BotOf(line), "imagine_card"), "session"), "media_sets")
      items == IF sets.t = "list"
               THEN Concat([i \in 1..Len(sets.v) |-> Field(sets.v[i], "imagine_media").v])
               ELSE <<>>
      kept == SelectSeq(items, HasUrl)
  IN [i \in 1..Len(kept) |->
        [url |-> Field(kept[i], "uri"), type |-> Field(kept[i], "media_type"),
         prompt |-> Field(kept[i], "prompt")]]
Enriched(line, looked) ==
  [message |-> TextOf(line),
   sources |-> IF looked = <<>> THEN <<>> ELSE RefsOf(looked[Len(looked)]),
   media |-> MediaOf(line)]

\* The part of a str before its first underscore, and the part after it.
FirstUnderscore(s) == CHOOSE n \in 1..Len(s) : s[n] = "_" /\ \A m \in 1..(n - 1) : s[m] # "_"
BeforeFirst(s) == SubSeq(s, 1, FirstUnderscore(s) - 1)
AfterFirst(s) == SubSeq(s, FirstUnderscore(s) + 1, Len(s))
\* The second of the pieces between underscores.
SecondPiece(s) == IF HasUnderscore(AfterFirst(s)) THEN BeforeFirst(AfterFirst(s)) ELSE AfterFirst(s)
HasCompositeId(line) ==
  line.raw = "json" /\ IdOf(line).t = "str" /\ HasUnderscore(IdOf(line).v)

ExactlyOneTerminal(b) ==
  \E i \in 1..Len(b) :
    /\ IsTerminal(b[i])
    /\ \A j \in 1..Len(b) : j # i => IsInProgress(b[j])
TerminalLine(b) == b[CHOOSE i \in 1..Len(b) : IsTerminal(b[i])]

FirstParsable(b) == b[CHOOSE i \in 1..Len(b) : b[i].raw = "json" /\ \A j \in 1..(i - 1) : b[j].raw # "json"]
StartsWithErrorEnvelope(b) ==
  /\ \E i \in 1..Len(b) : b[i].raw = "json"
  /\ IsErrorEnvelope(FirstParsable(b))
C3_ErrorEnvelopeRetries ==
  /\ (stream /\ Handled /\ StartsWithErrorEnvelope(body)) =>
       /\ gen = NoGen
       /\ yielded = <<>>
       /\ outcome # "generator"
       /\ \/ pc = "retry" /\ attempts < MAX_RETRIES
          \/ pc = "idle" /\ attempts = MAX_RETRIES /\ outcome = "RetryExhausted"
  /\ gen.state # "none" =>
       /\ gen.src = CallNo(calls, attempts)
       /\ ~StartsWithErrorEnvelope(body)
       /\ \A n \in 1..Len(yielded) :
            \E i \in 2..Len(body) :
              body[i].raw = "json" /\ yielded[n].message = TextOf(body[i])

C3_Witness ==
  /\ stream
  /\ pc = "retry"
  /\ Len(body) = 2
  /\ IsErrorEnvelope(body[1])
  /\ body[2].raw = "json"
  /\ Truthy(TextOf(body[2]))
  /\ yielded = <<>>

\* An identifier generated by this client (str(uuid.uuid4())).
IsLocalUuid(j) == j.t = "str" /\ Len(j.v) = 2 /\ j.v[1] = "uuid"

\* C4 as stated: conversationId and threadingId are both absent or both set.
C4_BothOrNeither ==
  (external_conversation_id = JNull) <=> (offline_threading_id = JNull)

\* C4 amended: a threadingId is never held without a conversationId (the
\* converse fails: a send stores a locally generated conversationId before any
\* response arrives), and a conversationId that is held is a locally generated
\* one or a piece of a composite id of the service.
C4_ThreadImpliesConversation ==
  /\ external_conversation_id = JNull => offline_threading_id = JNull
  /\ external_conversation_id.t \in {"null", "str"}
  /\ offline_threading_id.t \in {"null", "str"}
  /\ IsLocalUuid(external_conversation_id) => external_conversation_id.v[2] \in
       {ToString(CallNo(c, a)) : c \in 1..calls, a \in 0..MAX_RETRIES}

C4_Witness ==
  /\ pc = "idle"
  /\ new_conversation
  /\ IsLocalUuid(external_conversation_id)
  /\ offline_threading_id = JStr(<<"T1">>)

\* The first POST of a send that follows a buffered send that returned, with
\* new_conversation = false and no start_new_conversation in between.
SecondOfTwoBuffered ==
  /\ pc = "posted"
  /\ at_prompt.taken
  /\ at_prompt.after_buffered_return
  /\ ~at_prompt.since_reset
  /\ ~new_conversation
  /\ ~stream

\* C5 as stated: the payload of the second of two consecutive buffered sends
\* carries the conversation identifier the client held after the first.
C5_SecondPayloadCarriesStoredId ==
  SecondOfTwoBuffered =>
    request.payload.externalConversationId = at_prompt.external_conversation_id

\* C5 amended: the first payload of the second send carries the identifier
\* the client held after the first send when that identifier is not empty;
\* when it is the empty string (a composite id that begins with an
\* underscore) the second send generates a fresh identifier, stores it and
\* sends it.
C5_SecondPayloadCarriesNonEmptyStoredId ==
  SecondOfTwoBuffered =>
    /\ request.payload.externalConversationId = external_conversation_id
    /\ IF Truthy(at_prompt.external_conversation_id)
       THEN external_conversation_id = at_prompt.external_conversation_id
       ELSE /\ at_prompt.external_conversation_id = EmptyStr
            /\ external_conversation_id = Uuid(CallNo(calls, 0))

C5_Witness ==
  /\ SecondOfTwoBuffered
  /\ at_prompt.external_conversation_id = JStr(<<"C1">>)
  /\ at_prompt.offline_threading_id = JStr(<<"T1">>)
  /\ request.payload.externalConversationId = JStr(<<"C1">>)

\* The last line of b that has a composite id.
LastComposite(b) ==
  b[CHOOSE i \in 1..Len(b) : HasCompositeId(b[i]) /\ \A j \in (i + 1)..Len(b) : ~HasCompositeId(b[j])]

\* C6: once the generator of a streaming send that has yielded events and
\* whose lines carry a composite id is used up, ConversationState holds the
\* pieces of that id.
C6_StreamingStoresServiceIds ==
  (stream /\ pc = "idle" /\ gen.state = "exhausted" /\ yielded # <<>>
     /\ \E i \in 1..Len(body) : HasCompositeId(body[i])) =>
    /\ external_conversation_id = JStr(BeforeFirst(IdOf(LastComposite(body)).v))
    /\ offline_threading_id = JStr(SecondPiece(IdOf(LastComposite(body)).v))

\* C7 as stated: when a threadingId is held, the payload of a turn-send
\* carries it, and the conversationId, too.
C7_PayloadCarriesStoredThread ==
  (pc = "posted" /\ offline_threading_id # JNull) =>
    /\ request.payload.offlineThreadingId = offline_threading_id
    /\ request.payload.externalConversationId = external_conversation_id

\* C7 amended: every turn-send payload carries the conversationId the client
\* holds and, as offlineThreadingId, the nonce generated for that call; the
\* threadingId the client holds is never sent.
C7_PayloadCarriesNonce ==
  pc = "posted" =>
    /\ request.payload.externalConversationId = external_conversation_id
    /\ request.payload.offlineThreadingId = generate_offline_threading_id(CallNo(calls, attempts))
    /\ request.payload.offlineThreadingId # offline_threading_id

C7_Witness ==
  /\ pc = "posted"
  /\ offline_threading_id = JStr(<<"T1">>)
  /\ external_conversation_id = JStr(<<"C1">>)
  /\ request.payload.externalConversationId = JStr(<<"C1">>)

\* C8: start_new_conversation leaves both identifiers absent, and the first
\* POST of the next send carries an identifier generated in that call, which
\* differs from the one held before the reset.
C8_ResetThenFreshId ==
  /\ since_reset =>
       /\ external_conversation_id = JNull
       /\ offline_threading_id = JNull
  /\ (pc = "posted" /\ at_prompt.taken /\ at_prompt.since_reset) =>
       /\ at_prompt.external_conversation_id = JNull
       /\ at_prompt.offline_threading_id = JNull
       /\ request.payload.externalConversationId = Uuid(CallNo(calls, 0))
       /\ request.payload.externalConversationId # at_prompt.reset_from
       /\ external_conversation_id = Uuid(CallNo(calls, 0))

C8_Witness ==
  /\ pc = "posted"
  /\ at_prompt.taken
  /\ at_prompt.since_reset
  /\ at_prompt.reset_from = JStr(<<"C1">>)
  /\ ~new_conversation

\* C9: a send that has ended returned a result (or a generator) or raised
\* the retry-exhausted error, and a generator never raises.
C9_OnlyRetryExhausted ==
  outcome \in {"none", "returned", "generator", "RetryExhausted"}

\* C10: fetch_sources returns, and returns the empty sequence unless the
\* response is an object that holds a list of references.
C10_FetchSourcesNeverRaises ==
  fs.state = "done" =>
    /\ fs.res.ok
    /\ fs.res.val = (IF fs.calls > 0 THEN RefsOf(fs.resp) ELSE <<>>)

\* C11: fetch_sources called with an empty handle (None or ""), or with any
\* handle while no access token is cached, returns the empty sequence and
\* issues no POST.
C11_NoHandleOrNoTokenNoCall ==
  (fs.state = "done" /\ (~Truthy(fs.fetch_id) \/ ~Truthy(access_token))) =>
    /\ fs.res = Ok(<<>>)
    /\ fs.calls = 0

C11_Witness ==
  /\ fs.state = "done"
  /\ fs.fetch_id = Str1("F1")
  /\ access_token = JNull
  /\ fs.resp = Decoded(JList(<<JNum(1)>>))
  /\ fs.res = Ok(<<>>)

\* A Python list, as the model holds it.
IsSequence(x) == DOMAIN x = 1..Cardinality(DOMAIN x)
\* A value with the keys message, sources and media, the last two lists.
HasSourcesAndMedia(r) ==
  /\ {"message", "sources", "media"} \subseteq DOMAIN r
  /\ IsSequence(r.sources)
  /\ IsSequence(r.media)

\* C12: the value a buffered send returns and every event a streaming send
\* yields has a sources list and a media list, empty when there is nothing to
\* report, when the lookup was skipped and when it failed and was swallowed.
C12_SourcesAndMediaPresent ==
  /\ outcome = "returned" => HasSourcesAndMedia(result)
  /\ \A n \in 1..Len(yielded) : HasSourcesAndMedia(yielded[n])

C12_Witness ==
  /\ outcome = "returned"
  /\ lookups = <<TransportError>>
  /\ result.sources = <<>>
  /\ result.media = <<>>
  /\ Truthy(result.message)

\* C13: once an access token is cached, no step of the client changes it or
\* issues another token POST: every later send_message call (first attempts
\* and retries) puts the cached token in its payload, and the reference
\* lookup reads it through the property.  A token is cached by exactly one
\* token POST; a token POST that fails caches nothing.
C13_TokenFetchedOnce ==
  [][/\ Truthy(access_token) =>
          /\ access_token' = access_token
          /\ token_posts' = token_posts
     /\ token_posts' \in {token_posts, token_posts + 1}
     /\ (~Truthy(access_token) /\ Truthy(access_token')) => token_posts' = token_posts + 1
     /\ (pc' = "posted" /\ pc # "posted" /\ ~is_authenticated) =>
          request'.payload.auth = [access_token |-> access_token']
    ]_vars

C13_Witness ==
  /\ ~is_authenticated
  /\ access_token = Token
  /\ token_posts = 1
  /\ calls = 2
  /\ attempts = 1
  /\ pc = "posted"
  /\ request.payload.auth = [access_token |-> Token]

\* C14: the turn-send POST of every attempt of an authenticated client, first
\* attempts and retries alike, is issued on a session created in that very
\* send_message call (so no two attempts share one), whose proxies are those
\* of the shared session and whose cookie jar is empty.
C14_FreshSessionPerAuthenticatedAttempt ==
  (pc = "posted" /\ is_authenticated) =>
    /\ request.session.own
    /\ request.session.created_in = CallNo(calls, attempts)
    /\ request.session = session
    /\ request.session.proxies = credential.proxies
    /\ request.session.cookies = {}

C14_Witness ==
  /\ pc = "posted"
  /\ is_authenticated
  /\ credential.proxies = Proxies
  /\ calls = 2
  /\ attempts = 1
  /\ request.session.created_in = CallNo(2, 1)
  /\ request.session.proxies = Proxies

\* C15: the request of every attempt agrees with the client's is_authenticated
\* flag, whatever refresh_session calls came before.  A client that logged in
\* posts to META_AI_API_URL with the fb_dtsg token of its current cookies and
\* a cookie header that holds the abra_sess cookie and nothing else; a client
\* that did not posts to META_AI_GRAPH_URL with the cached access token and no
\* cookie header.
C15_RequestAgreesWithFlag ==
  pc = "posted" =>
    IF is_authenticated
    THEN /\ request.url = META_AI_API_URL
         /\ request.payload.auth = [fb_dtsg |-> cookies["fb_dtsg"]]
         /\ DOMAIN request.headers = {"friendly", "cookie"}
         /\ request.headers.cookie = <<"abra_sess", cookies["abra_sess"]>>
    ELSE /\ request.url = META_AI_GRAPH_URL
         /\ request.payload.auth = [access_token |-> access_token]
         /\ Truthy(access_token)
         /\ DOMAIN request.headers = {"friendly"}

C15_Witness ==
  /\ pc = "posted"
  /\ is_authenticated
  /\ calls = 2
  /\ cookies = get_cookies(TRUE, "refresh")
  /\ request.url = META_AI_API_URL
  /\ request.headers.cookie = <<"abra_sess", JStr(<<"abra_sess", "refresh">>)>>

\* C16: a send that has ended in an error has made the first attempt and
\* MAX_RETRIES retries, each of which failed to decode a terminal event, and
\* the error is the retry-exhausted one; a send that has ended makes no
\* further attempt.
C16_FailedOnlyAfterAllRetries ==
  /\ (pc = "idle" /\ outcome \notin {"none", "returned", "generator"}) =>
       /\ outcome = "RetryExhausted"
       /\ attempts = MAX_RETRIES
       /\ posts = MAX_RETRIES + 1
  /\ pc = "idle" => posts <= MAX_RETRIES + 1

\* C17: while the first POST of a send with new_conversation = true is in
\* flight, the client holds neither the conversationId nor the threadingId it
\* held when the send was prompted.
C17_NewConversationResetsBoth ==
  (pc = "posted" /\ new_conversation /\ at_prompt.taken) =>
    /\ at_prompt.external_conversation_id # JNull =>
         external_conversation_id # at_prompt.external_conversation_id
    /\ at_prompt.offline_threading_id # JNull =>
         offline_threading_id # at_prompt.offline_threading_id

\* The items of a media set, none when imagine_media is missing or null.
ItemsOf(set) ==
  IF Field(set, "imagine_media").t = "list" THEN Field(set, "imagine_media").v ELSE <<>>
\* The media of an event: the items with a non-empty url of every media set,
\* in set order, then item order; none when a container is missing, null or
\* empty.
ExpectedMedia(bot) ==
  LET sets == Field(Field(Field(bot, "imagine_card"), "session"), "media_sets")
      items == IF sets.t = "list"
               THEN Concat([i \in 1..Len(sets.v) |-> ItemsOf(sets.v[i])])
               ELSE <<>>
      kept == SelectSeq(items, HasUrl)
  IN [i \in 1..Len(kept) |->
        [url |-> Field(kept[i], "uri"), type |-> Field(kept[i], "media_type"),
         prompt |-> Field(kept[i], "prompt")]]

\* C18: extract_media returns, never raises, and what it returns is the media
\* of the event as defined above.
C18_ExtractMediaTotal ==
  em.state = "done" =>
    /\ em.res.ok
    /\ em.res.val = ExpectedMedia(em.bot)

\* C19: whatever the deprecated attempts argument, a step of the legacy prompt
\* is the step of client.MetaAI.prompt with the same stream and
\* new_conversation: the same request, state changes and error, and an
\* attempt counter of 0, the warning aside; and every step of the client's
\* prompt is a step of the legacy prompt with attempts = 0.
C19_LegacyPromptIsClientPrompt ==
  [][\A st \in BOOLEAN, nc \in BOOLEAN :
       /\ \A a \in LegacyAttempts :
            legacy_prompt_call(st, a, nc) => (send(st, nc, 0) /\ attempts' = 0)
       /\ client_prompt(st, nc) => legacy_prompt_call(st, 0, nc)
    ]_vars

C19_Witness ==
  /\ warned
  /\ pc = "posted"
  /\ attempts = 0
  /\ calls = 2

\* The conversation identifier in the payload of a request.
PayloadId(r) == r.payload.externalConversationId

\* A retry that reaches its POST: the step from the sleep of _retry_message
\* to the POST of the next attempt.  Before the step request is the request
\* of the failed attempt and body its response.
RetryPosts == pc = "retry" /\ pc' = "posted"

\* C20 as stated: when the caller did not request a new conversation, the
\* payload of every retry carries the conversation identifier of the first
\* attempt of the send (each retry that of the attempt before it).
C20_RetryCarriesFirstIdentifier ==
  [][(RetryPosts /\ ~new_conversation) => PayloadId(request') = PayloadId(request)]_vars

\* C20 amended: the payload of a retry carries the identifier the client
\* holds at the end of the failed attempt, whether or not the caller requested
\* a new conversation.  That is the identifier of the attempt before it for a
\* streaming send and for a buffered send whose failed response had no
\* composite id; after a buffered response with a composite id it is the
\* first piece of the last such id, or a fresh identifier when that piece is
\* empty.
C20_RetryCarriesStoredIdentifier ==
  [][RetryPosts =>
       /\ PayloadId(request') =
            handle_conversation_id(external_conversation_id, FALSE, CallNo(calls, attempts + 1))
       /\ IF ~stream /\ \E i \in 1..Len(body) : HasCompositeId(body[i])
          THEN external_conversation_id = JStr(BeforeFirst(IdOf(LastComposite(body)).v))
          ELSE PayloadId(request') = PayloadId(request)
    ]_vars

C20_Witness ==
  /\ pc = "posted"
  /\ ~stream
  /\ ~new_conversation
  /\ attempts = 1
  /\ PayloadId(request) = JStr(<<"C2">>)
  /\ external_conversation_id = JStr(<<"C2">>)

\* The response of an attempt arrives and is handled: the step of
\* handle_response.  After it body is that response.
ResponseHandled == pc = "posted" /\ pc' # "posted"

\* The attempt whose response was handled went to _retry_message: another
\* attempt follows, or the terminal error when none is left.
RetryEntered == pc = "retry" \/ (pc = "idle" /\ outcome = "RetryExhausted")

\* The conditions under which an attempt with response b is to be retried.
RetryTrigger(st, b) ==
  IF st
  THEN Len(b) = 0 \/ b[1].raw # "json" \/ IsErrorEnvelope(b[1])
  ELSE NoTerminal(b)

\* C21: an attempt goes to the retry path exactly when, buffered, no decoded
\* line of its response is a terminal event or, streaming, the response has
\* no line, or its first line does not parse or is an error envelope.
C21_RetryExactlyOnTriggers ==
  [][ResponseHandled => (RetryEntered' <=> RetryTrigger(stream, body'))]_vars

\* C22: a buffered attempt whose response has a line with a composite id
\* leaves, as conversationId, the text of the last such id before its first
\* underscore and, as threadingId, all the text after that underscore; a
\* response without a composite id leaves both identifiers as they were.
C22_SplitAtFirstUnderscore ==
  [][(ResponseHandled /\ ~stream /\ AllWireShaped(body')) =>
       IF \E i \in 1..Len(body') : HasCompositeId(body'[i])
       THEN /\ external_conversation_id' = JStr(BeforeFirst(IdOf(LastComposite(body')).v))
            /\ offline_threading_id' = JStr(AfterFirst(IdOf(LastComposite(body')).v))
       ELSE UNCHANGED <<external_conversation_id, offline_threading_id>>
    ]_vars

\* The lines of b that the decoder does not skip.
IsDecoded(line) == line.raw = "json"
Strip(b) == SelectSeq(b, IsDecoded)
\* The last terminal line of b.
LastTerminal(b) ==
  b[CHOOSE i \in 1..Len(b) : IsTerminal(b[i]) /\ \A j \in (i + 1)..Len(b) : ~IsTerminal(b[j])]

\* C23: in a buffered attempt the blank and unparsable lines change nothing:
\* the decoder finds in the response what it finds in the response without
\* them.  When the decoded lines are events, the line it returns is the last
\* one with streaming_state = OVERALL_DONE, none when no line has that state,
\* and a send that returns returns the data of that line.
C23_LastTerminalSkippingBlanks ==
  [][(ResponseHandled /\ ~stream) =>
       /\ extract_last_response(body', external_conversation_id, offline_threading_id)
            = extract_last_response(Strip(body'), external_conversation_id, offline_threading_id)
       /\ AllWireShaped(body') =>
            /\ extract_last_response(body', external_conversation_id, offline_threading_id).res
                 = Ok(IF NoTerminal(body') THEN JNull ELSE LastTerminal(body').j)
            /\ outcome' = "returned" =>
                 /\ ~NoTerminal(body')
                 /\ result' = Enriched(LastTerminal(body'), lookups')
    ]_vars

C23_Witness ==
  /\ ~stream
  /\ pc = "idle"
  /\ outcome = "returned"
  /\ Len(body) = 2
  /\ IsTerminal(body[1])
  /\ IsTerminal(body[2])
  /\ TextOf(body[1]) # TextOf(body[2])
  /\ result.message = TextOf(body[2])

\* C24: a buffered attempt whose response consists of events and skipped
\* lines leaves, as ConversationState, the first and second underscore-
\* separated pieces of the id of the last event that has a composite id,
\* terminal or not, and leaves the state alone when no event has one; so it
\* does when the attempt found no terminal event and goes to the retry path.
C24_StateFromEveryEvent ==
  [][(ResponseHandled /\ ~stream /\ AllWireShaped(body')) =>
       /\ IF \E i \in 1..Len(body') : HasCompositeId(body'[i])
          THEN /\ external_conversation_id' = JStr(BeforeFirst(IdOf(LastComposite(body')).v))
               /\ offline_threading_id' = JStr(SecondPiece(IdOf(LastComposite(body')).v))
          ELSE UNCHANGED <<external_conversation_id, offline_threading_id>>
       /\ NoTerminal(body') => RetryEntered'
    ]_vars

C24_Witness ==
  /\ ~stream
  /\ pc = "retry"
  /\ Len(body) = 2
  /\ IsInProgress(body[1])
  /\ HasCompositeId(body[1])
  /\ ~HasCompositeId(body[2])
  /\ external_conversation_id = JStr(BeforeFirst(IdOf(body[1]).v))
  /\ offline_threading_id = JStr(SecondPiece(IdOf(body[1]).v))

\* The lines of b after the first that parse and have a non-empty text, and
\* the messages of a sequence of yielded events.
HasText(line) == line.raw = "json" /\ Truthy(TextOf(line))
Emitted(b) == SelectSeq(Tail(b), HasText)
Messages(events) == [n \in 1..Len(events) |-> events[n].message]

\* C25: once the generator of a streaming attempt has ended, the events it
\* has yielded are, in line order, one for each line after the first that
\* parses and has a non-empty text.
C25_YieldsEveryLineWithText ==
  (stream /\ gen.state \in {"exhausted", "failed"}) =>
    Messages(yielded) = [n \in 1..Len(Emitted(body)) |-> TextOf(Emitted(body)[n])]

\* C26: a streaming turn whose first line was accepted is neither retried
\* nor failed: while its generator exists the send has handed it to the
\* caller, no retry is pending, and the generator is running or has come to
\* the end of the lines.
C26_AcceptedStreamEndsReceived ==
  gen.state # "none" =>
    /\ pc = "idle"
    /\ outcome = "generator"
    /\ gen.state \in {"open", "exhausted"}

\* n sleeps of RETRY_DELAY each.
Delays(n) == [i \in 1..n |-> RETRY_DELAY]

C28_SendKeepsAllButStateAndToken ==
  [][UNCHANGED <<is_authenticated, cookies, credential, session>>]_vars

\* C28 amended: besides ConversationState and the cached access token a send
\* changes the HTTP sessions and nothing else.  The flag and the cookies of
\* the credentials stay.  The shared session keeps its proxies and can only
\* gain cookies.  The processor's session stays the shared one for an
\* anonymous client; for an authenticated client each POST replaces it by a
\* session made in that call, with the proxies of the shared session and an
\* empty jar, which from then on can only gain cookies.
C28_SendChangesSessionsToo ==
  [][/\ UNCHANGED <<is_authenticated, cookies>>
     /\ credential'.proxies = credential.proxies
     /\ credential.cookies \subseteq credential'.cookies
     /\ ~is_authenticated => session' = Shared
     /\ \/ session' = session
        \/ /\ session.own /\ session'.own
           /\ session'.created_in = session.created_in
           /\ session'.proxies = session.proxies
           /\ session.cookies \subseteq session'.cookies
        \/ /\ is_authenticated /\ pc' = "posted"
           /\ session'.own
           /\ session'.created_in = CallNo(calls', attempts')
           /\ session'.proxies = credential.proxies
           /\ session'.cookies = {}
    ]_vars

C28_Witness ==
  /\ is_authenticated
  /\ pc = "idle"
  /\ outcome = "returned"
  /\ credential.proxies = Proxies
  /\ session.own
  /\ session.created_in = CallNo(calls, attempts)
  /\ session.proxies = Proxies
  /\ SetCookie \in session.cookies
  /\ external_conversation_id = JStr(<<"C1">>)

\* C29: when both calls return, has_media returns true exactly when
\* extract_media returns a sequence that is not empty.
C29_HasMediaIffExtracted ==
  (em.state = "compared" /\ em.res.ok /\ em.has.ok) =>
    (em.has.val <=> em.res.val # <<>>)

\* C30: the payloads sent so far carry pairwise different nonces, one for
\* each turn-send POST; the payload of the POST in flight carries the nonce
\* generated in the send_message call that issued it, which is the last of
\* them and is not the stored threadingId.
C30_NoncePerAttempt ==
  nonces.on =>
    /\ \A i, j \in 1..Len(nonces.sent) : i # j => nonces.sent[i] # nonces.sent[j]
    /\ pc = "posted" =>
         /\ nonces.sent # <<>>
         /\ request.payload.offlineThreadingId = nonces.sent[Len(nonces.sent)]
         /\ request.payload.offlineThreadingId
              = generate_offline_threading_id(CallNo(calls, attempts))
         /\ request.payload.offlineThreadingId # offline_threading_id
    /\ Len(nonces.sent) >= posts

C30_Witness ==
  /\ nonces.on
  /\ pc = "posted"
  /\ calls = 2
  /\ attempts = 1
  /\ Len(nonces.sent) >= 3
  /\ offline_threading_id = JStr(<<"T2">>)

\* C31: while the attempts of a streaming send are under way, and when the
\* send has raised the terminal error, the caller holds no generator and has
\* been yielded nothing.  The terminal error is raised by the call itself,
\* after MAX_RETRIES + 1 POSTs, the response to the last of which has no
\* line, or a first line that does not parse or is an error envelope.
C31_StreamingExhaustionRaisesAtCall ==
  /\ (stream /\ pc \in {"posted", "retry"}) => (gen = NoGen /\ yielded = <<>>)
  /\ (stream /\ pc = "idle" /\ outcome = "RetryExhausted") =>
       /\ gen = NoGen
       /\ yielded = <<>>
       /\ result = NoResult
       /\ attempts = MAX_RETRIES
       /\ posts = MAX_RETRIES + 1
       /\ RetryTrigger(TRUE, body)

C31_Witness ==
  /\ stream
  /\ pc = "idle"
  /\ outcome = "RetryExhausted"
  /\ posts = MAX_RETRIES + 1
  /\ Len(body) = 2
  /\ IsErrorEnvelope(body[1])
  /\ HasText(body[2])
  /\ gen = NoGen

\* C32: the events a streaming send has yielded are events of lines of one
\* response, that of the attempt that made the generator.  Once an event has
\* been yielded the send issues no POST and enters no retry: the next POST
\* is that of a new prompt.  A generator keeps to the lines of its attempt,
\* which only get fewer, and one that has ended stays ended until the caller
\* lets go of it.
C32_EventsOfOneAttempt ==
  [][/\ yielded # <<>> =>
          /\ pc = "idle"
          /\ gen.state # "none"
          /\ gen.src = CallNo(calls, attempts)
          /\ \A n \in 1..Len(yielded) :
               \E i \in 2..Len(body) : HasText(body[i]) /\ yielded[n].message = TextOf(body[i])
          /\ pc' # "retry"
          /\ pc' = "posted" => (calls' = calls + 1 /\ yielded' = <<>>)
          /\ posts' <= posts \/ calls' = calls + 1
     /\ (gen.state # "none" /\ gen'.state # "none") =>
          /\ gen'.src = gen.src
          /\ Len(gen'.rest) <= Len(gen.rest)
          /\ body' = body
     /\ gen.state \in {"exhausted", "failed"} => gen' \in {gen, NoGen}
    ]_vars

C32_Witness ==
  /\ stream
  /\ attempts = 1
  /\ gen.state = "exhausted"
  /\ gen.src = CallNo(calls, 1)
  /\ Len(yielded) = 1
  /\ posts = 2

\* A step that decodes a response: handle_response, or a pull of the
\* generator.
Decodes == pc = "posted" \/ (pc = "idle" /\ pc' = "idle" /\ gen.state = "open" /\ gen' # gen)

\* C33: decoding a response, reference lookups included, neither changes the
\* cached access token nor issues a token POST, and a lookup is made only with
\* a token that is cached.  So while no token is cached no lookup has been
\* made and every result and every yielded event has empty sources; an
\* authenticated client never has a token.
C33_LookupNeverAcquiresToken ==
  [][/\ Decodes => (access_token' = access_token /\ token_posts' = token_posts)
     /\ lookups' # lookups /\ lookups' # <<>> => Truthy(access_token)
     /\ ~Truthy(access_token') =>
          /\ lookups' = <<>>
          /\ outcome' = "returned" => result'.sources = <<>>
          /\ \A n \in 1..Len(yielded') : yielded'[n].sources = <<>>
     /\ is_authenticated => (access_token' = JNull /\ token_posts' = 0)
    ]_vars

C33_Witness ==
  /\ is_authenticated
  /\ access_token = JNull
  /\ pc = "idle"
  /\ outcome = "returned"
  /\ Len(body) = 1
  /\ Field(BotOf(body[1]), "fetch_id") = Str1("F1")
  /\ result.sources = <<>>
  /\ lookups = <<>>

\* C34: in a buffered send no reference lookup has been made while an attempt
\* is in flight or waiting to be retried, nor when the send ended in the
\* terminal error; at most one lookup is made per send, and it is made with
\* the fetch_id of the terminal event of the attempt that ended the send.
C34_BufferedLookupOnlyForTerminal ==
  ~stream =>
    /\ Len(lookups) <= 1
    /\ pc \in {"posted", "retry"} => lookups = <<>>
    /\ outcome = "RetryExhausted" => lookups = <<>>
    /\ lookups # <<>> =>
         /\ pc = "idle"
         /\ ~NoTerminal(body)
         /\ Truthy(Field(BotOf(LastTerminal(body)), "fetch_id"))
         /\ Truthy(access_token)

C34_Witness ==
  /\ ~stream
  /\ pc = "idle"
  /\ attempts = 1
  /\ posts = 2
  /\ outcome = "returned"
  /\ Len(lookups) = 1
  /\ result.sources # <<>>

\* C35: every turn-send POST, first attempt or retry, carries a conversation
\* identifier that is a non-empty string and is the stored one; when the
\* stored identifier was None or empty before the call, or the call asked for
\* a new conversation, it is an identifier generated locally by this call.
C35_PayloadIdNeverEmpty ==
  [][posts' = posts + 1 =>
       /\ pc' = "posted"
       /\ PayloadId(request') # JNull
       /\ PayloadId(request') # EmptyStr
       /\ Truthy(PayloadId(request'))
       /\ PayloadId(request') = external_conversation_id'
       /\ (~Truthy(external_conversation_id) \/ (pc = "idle" /\ new_conversation')) =>
            PayloadId(request') = Uuid(CallNo(calls', attempts'))
    ]_vars

C35_Witness ==
  /\ pc = "posted"
  /\ calls = 2
  /\ attempts = 0
  /\ ~new_conversation
  /\ at_prompt.external_conversation_id = EmptyStr
  /\ PayloadId(request) = Uuid(CallNo(2, 0))

\* C36: a send of an anonymous client whose token request is answered with an
\* undecodable body or a body without the expected keys raises
\* FacebookRegionBlocked on its first call: no retry and no turn-send POST,
\* the stored identifiers are those held before the call and no token is
\* cached; and every send started by an anonymous client without a cached
\* token issues the token request.
C36_TokenFailureLeavesStateAlone ==
  [][/\ (calls' = calls + 1 /\ outcome' = "FacebookRegionBlocked") =>
          /\ ~is_authenticated
          /\ pc' = "idle"
          /\ attempts' = 0
          /\ posts' = 0
          /\ slept' = <<>>
          /\ token_posts' = token_posts + 1
          /\ external_conversation_id' = external_conversation_id
          /\ offline_threading_id' = offline_threading_id
          /\ access_token = JNull
          /\ access_token' = JNull
     /\ outcome' = "FacebookRegionBlocked" => calls' = calls + 1
     /\ (calls' = calls + 1 /\ ~is_authenticated /\ ~Truthy(access_token)) =>
          token_posts' = token_posts + 1
    ]_vars

C36_Witness ==
  /\ ~is_authenticated
  /\ calls = 2
  /\ new_conversation
  /\ outcome = "FacebookRegionBlocked"
  /\ at_prompt.after_buffered_return = FALSE
  /\ at_prompt.external_conversation_id = JNull
  /\ external_conversation_id = JNull
  /\ access_token = JNull
  /\ token_posts = 2
  /\ posts = 0

\* The identifier generated by the first attempt of the current send.
FirstAttemptId == Uuid(CallNo(calls, 0))

\* C37: a send invoked with new_conversation = true puts in its first payload
\* an identifier generated by that call, different from the one stored before
\* the call; and a retry that follows attempts whose responses carried no
\* composite id, so that the payload before it still carried that identifier,
\* carries it again and generates none of its own.
C37_FreshIdGeneratedOnce ==
  [][/\ (pc = "idle" /\ pc' = "posted" /\ new_conversation') =>
          /\ PayloadId(request') = Uuid(CallNo(calls', 0))
          /\ PayloadId(request') # external_conversation_id
          /\ external_conversation_id' = PayloadId(request')
     /\ (/\ RetryPosts
         /\ new_conversation
         /\ PayloadId(request) = FirstAttemptId
         /\ \A i \in 1..Len(body) : ~HasCompositeId(body[i])) =>
          /\ external_conversation_id = FirstAttemptId
          /\ PayloadId(request') = FirstAttemptId
          /\ PayloadId(request') # Uuid(CallNo(calls, attempts'))
          /\ external_conversation_id' = FirstAttemptId
    ]_vars

C37_Witness ==
  /\ pc = "posted"
  /\ new_conversation
  /\ ~stream
  /\ calls = 2
  /\ attempts = MAX_RETRIES
  /\ posts = MAX_RETRIES + 1
  /\ at_prompt = NoSnapshot
  /\ PayloadId(request) = Uuid(CallNo(2, 0))
  /\ external_conversation_id = Uuid(CallNo(2, 0))

\* C38: the authentication manager and the source fetcher always hold the
\* session manager's cookie mapping, after a refresh as well; and a step that
\* changes the cookies changes nothing else of the client: the stored
\* identifiers, the cached token, the sessions and the counters stay.
C38_RefreshChangesOnlyCookies ==
  [][/\ auth_manager_cookies' = cookies'
     /\ source_fetcher_cookies' = cookies'
     /\ cookies' # cookies =>
          /\ cookies' = get_cookies(is_authenticated, "refresh")
          /\ UNCHANGED <<is_authenticated, access_token, external_conversation_id,
                         offline_threading_id, pc, stream, new_conversation, attempts, gen,
                         yielded, request, body, outcome, result, lookups, calls, posts,
                         token_posts, credential, session, slept>>
    ]_vars

\* The first POST of a send made after a refresh, without new_conversation,
\* by a client that held a conversation and a token.
C38_Witness ==
  /\ ~is_authenticated
  /\ cookies = get_cookies(FALSE, "refresh")
  /\ auth_manager_cookies = cookies
  /\ source_fetcher_cookies = cookies
  /\ pc = "posted"
  /\ calls = 2
  /\ attempts = 0
  /\ ~new_conversation
  /\ at_prompt.external_conversation_id = JStr(<<"C1">>)
  /\ PayloadId(request) = JStr(<<"C1">>)
  /\ access_token = Token
  /\ token_posts = 1

\* A pull of the kept generator.
PullsHeld == held.state = "open" /\ held' # held

\* C39: pulling a kept generator, whether before or after the client was
\* reset or made a later send, changes neither stored identifier nor anything
\* else of the current send; after start_new_conversation the identifiers stay
\* None until the next send, whatever is pulled.
C39_PullingKeptStreamKeepsState ==
  [][/\ PullsHeld =>
          UNCHANGED <<external_conversation_id, offline_threading_id, access_token, pc,
                      stream, new_conversation, attempts, gen, yielded, request, body,
                      outcome, result, calls, posts, token_posts>>
     /\ since_reset' => (external_conversation_id' = JNull /\ offline_threading_id' = JNull)
    ]_vars

\* An event with a composite id pulled from the generator of the first send
\* after a second, buffered, send stored other identifiers.
C39_Witness ==
  /\ held.call = 1
  /\ held.after = "send"
  /\ Len(held.pulled) = 1
  /\ HasCompositeId(held.pulled[1])
  /\ IdOf(held.pulled[1]) = JStr(<<"C2", "_", "T2", "_", "X2">>)
  /\ calls = 2
  /\ ~stream
  /\ outcome = "returned"
  /\ external_conversation_id = JStr(<<"C1">>)
  /\ offline_threading_id = JStr(<<"T1">>)

====
